---------------------------- MODULE Spec2Model ----------------------------
(***************************************************************************)
(* Model of the PBS server's Signal-Job request family (req_signal.c), the *)
(* batch-request life cycle and request intake (process_request.c) and the *)
(* server side of the pluggable authentication handshake (auth.c).         *)
(*                                                                         *)
(* The server is single threaded: one handler runs to completion (or to   *)
(* the point where it waits for an execution host) per step, so every      *)
(* handler is one atomic action.  Handlers are written as operators that   *)
(* take the server state as a record S and return the state they leave.    *)
(***************************************************************************)
EXTENDS Integers, Sequences, FiniteSets, TLC

VARIABLES
    jobs,       \* job id -> job structure (ji_qs state, substate, svrflags, ...)
    ajstate,    \* state letter of the array job that owns the subjobs
    nodes,      \* vnode name -> [maint, maintjobs]
    reqs,       \* request id -> struct batch_request (one slot per alloc_br)
    replies,    \* request id -> the reply codes written to the requester
    relays,     \* requests relayed to an execution host, awaiting its answer
    sched,      \* TRUE when set_scheduler_flag(SCH_SCHEDULE_NEW) was called
    dead,       \* TRUE once the server process has aborted
    quota,      \* number of Signal-Job requests still to arrive
    conn,       \* socket -> connection table entry (conn_t)
    chan,       \* socket -> direction -> [status, def, ctx] of the channel
    done,       \* socket -> contexts whose provider reported completion
    last,       \* what process_request did with the last request it read
    mem,        \* the objects a library routine is called on, and its inputs
    out         \* what the routine returned, NoOut before it has run

sigvars == <<jobs, ajstate, nodes, reqs, replies, relays, sched, dead, quota>>
authvars == <<conn, chan, done, last>>
libvars == <<mem, out>>
vars == <<jobs, ajstate, nodes, reqs, replies, relays, sched, dead, quota,
          conn, chan, done, last, mem, out>>

\* mem and out are records in every state
NoMem == [obj |-> "none"]
NoOut == [rc |-> "pending"]

\* no library routine is under test
NoLib == mem = NoMem /\ out = NoOut

-----------------------------------------------------------------------------
(* Bounds *)

\* number of subjobs tracked by the array job (tkm_ct)
NSub == 2
\* number of Signal-Job requests received in one behaviour, for a plain job
MaxReq == 2
\* and for a job array
MaxArrayReq == 1
\* number of client connections the server holds
NConn == 1
\* number of requests process_request reads in one behaviour
MaxAuthReq == 2
\* number of calls of get_auth in one behaviour
MaxGetAuth == 4
\* longest plaintext given to pbs_gss_wrap, and the number of wrap and unwrap
\* calls on one context
MaxText == 2
MaxGssCalls == 3
\* longest string given to decode_str and set_str, longest string an
\* attribute grows to, and the number of calls on one attribute
MaxVal == 2
MaxStr == 4
MaxAttrCalls == 3
\* chunks of an exec_vnode, resources of a chunk, and entries of the
\* restricted-release list
MaxChunks == 2
MaxResc == 2
MaxRestrict == 2
\* number of set_admin_suspend calls in one behaviour
MaxMaintOps == 6
\* number of process_handshake_data calls a provider takes to finish
MaxRounds == 2
\* number of client sockets and of outstanding requests on svr_requests
MaxSock == 2
MaxOutstanding == 2
\* number of status records in one reply
MaxRecords == 3
\* calls of __pbs_gss_establish_context in the server role
MaxEstablish == 3
\* children reaped by one scan_for_terminated
MaxReaped == 2
\* entries of a job's shell list, and characters of an entry's host part
MaxShells == 3
MaxHostLen == 2

-----------------------------------------------------------------------------
(* Names *)

PlainJob == 0
SubJobs == 1..NSub
JobIds == {PlainJob} \cup SubJobs
NoJob == -1

SIG_SUSPEND == "suspend"
SIG_RESUME == "resume"
SIG_ADMIN_SUSPEND == "admin-suspend"
SIG_ADMIN_RESUME == "admin-resume"
SigNames == {"TERM", SIG_SUSPEND, SIG_RESUME, SIG_ADMIN_SUSPEND, SIG_ADMIN_RESUME}

JOB_STATE_LTR_RUNNING == "R"
JOB_STATE_LTR_QUEUED == "Q"
JOB_STATE_LTR_BEGUN == "B"
\* no such job in the server's job list (find_job returns NULL)
NoSuchJob == "-"

JOB_SUBSTATE_QUEUED == "QUEUED"
JOB_SUBSTATE_RUNNING == "RUNNING"
JOB_SUBSTATE_SUSPEND == "SUSPEND"
JOB_SUBSTATE_SCHSUSP == "SCHSUSP"
JOB_SUBSTATE_PROVISION == "PROVISION"

\* the vnode named by each job's exec_vnode (jobs may share a vnode)
Vnodes == {"n1", "n2"}
exec_vnode(j) == IF j = NSub THEN {"n2"} ELSE {"n1"}

MaxBr == (IF MaxReq > MaxArrayReq THEN MaxReq ELSE MaxArrayReq) * (NSub + 1)
BrIds == 1..MaxBr
NoBr == 0

-----------------------------------------------------------------------------
(* Job structures the server can hold when a request arrives *)

RunningJob ==
    [state |-> JOB_STATE_LTR_RUNNING, substate |-> JOB_SUBSTATE_RUNNING,
     Suspend |-> FALSE, AdmSuspd |-> FALSE, assigned |-> 1,
     dealloc |-> FALSE, pmt |-> FALSE]

ProvisioningJob == [RunningJob EXCEPT !.substate = JOB_SUBSTATE_PROVISION]

QueuedJob ==
    [RunningJob EXCEPT !.state = JOB_STATE_LTR_QUEUED,
                       !.substate = JOB_SUBSTATE_QUEUED, !.assigned = 0]

AbsentJob ==
    [QueuedJob EXCEPT !.state = NoSuchJob, !.substate = NoSuchJob]

\* a job suspended earlier: its resources were released by rel_resc
SuspendedJob ==
    [RunningJob EXCEPT !.substate = JOB_SUBSTATE_SUSPEND, !.Suspend = TRUE,
                       !.assigned = 0]

\* a suspended job part of whose exec_vnode was released (pbs_release_nodes)
SuspendedDeallocJob == [SuspendedJob EXCEPT !.dealloc = TRUE]

NoRequest ==
    [st |-> "none", signame |-> "TERM", fromsvr |-> 0, oper |-> FALSE,
     target |-> [kind |-> "job", idx |-> 0, range |-> <<>>],
     parentbr |-> NoBr, refct |-> 0, rq_extra |-> NoJob, code |-> "0",
     extend |-> "none",
     \* what an observer of the handlers records: the number of relay_to_mom
     \* calls made for the request, the resources the job held at the last of
     \* them, and whether "Unable to reach scheduler" was logged
     ncalls |-> 0, atrelay |-> -1, schederr |-> FALSE]

-----------------------------------------------------------------------------
(* The server state as one record, so that handlers compose *)

State ==
    [jobs |-> jobs, ajstate |-> ajstate, nodes |-> nodes, reqs |-> reqs,
     replies |-> replies, relays |-> relays, sched |-> sched, dead |-> dead]

\* error codes returned by the helpers the handlers call
AssignErr == "assign_hosts:rc"
SetNodesErr == "set_nodes:rc"
RelayErr == "relay_to_mom:rc"
PBSE_NONE == "0"

-----------------------------------------------------------------------------
(* Batch-request life cycle: alloc_br, free_br, reply_send *)

\* the slot alloc_br hands out next
NextBr(S) == CHOOSE r \in BrIds : S.reqs[r].st = "none" /\
                 \A q \in BrIds : q < r => S.reqs[q].st # "none"

alloc_br(S, r) ==
    [S EXCEPT !.reqs[r] = [NoRequest EXCEPT !.st = "live"]]

RECURSIVE free_br(_, _), reply_send(_, _)

\* a free_br that releases the shared payload when a duplicate is freed
free_br_early(S, r) ==
    LET p == S.reqs[r].parentbr
        S1 == [S EXCEPT !.reqs[r].st = "freed"]
    IN  IF p # NoBr
        THEN LET S2 == [S1 EXCEPT !.reqs[p].extend = "freed"]
             IN  IF S2.reqs[p].refct > 0
                 THEN LET S3 == [S2 EXCEPT !.reqs[p].refct = @ - 1]
                      IN  IF S3.reqs[p].refct = 0
                          THEN reply_send(S3, p) ELSE S3
                 ELSE S2
        ELSE [S1 EXCEPT !.reqs[r].extend = "freed"]

\* free_br: a duplicate made for a subjob releases nothing it shares with its
\* parent; it drops one reference of the parent and, on the last one, sends
\* the parent's reply.  A request without parent releases its own payload.
free_br(S, r) ==
    LET p == S.reqs[r].parentbr
        S1 == [S EXCEPT !.reqs[r].st = "freed"]
    IN  IF p # NoBr
        THEN IF S1.reqs[p].refct > 0
             THEN LET S2 == [S1 EXCEPT !.reqs[p].refct = @ - 1]
                  IN  IF S2.reqs[p].refct = 0 THEN reply_send(S2, p) ELSE S2
             ELSE S1
        ELSE [S1 EXCEPT !.reqs[r].extend = "freed"]

\* reply_send: the reply of a request without parent is written to the
\* requester; the reply of a duplicate is not (its parent answers for all
\* duplicates).  Either way the request is freed.
reply_send(S, r) ==
    IF S.reqs[r].parentbr # NoBr
    THEN free_br(S, r)
    ELSE free_br([S EXCEPT !.replies[r] = Append(@, S.reqs[r].code)], r)

req_reject(S, code, r) == reply_send([S EXCEPT !.reqs[r].code = code], r)

reply_ack(S, r) == reply_send([S EXCEPT !.reqs[r].code = PBSE_NONE], r)

-----------------------------------------------------------------------------
(* Helpers of the signal handlers *)

svr_setjobstate(S, j, st, ss) ==
    [S EXCEPT !.jobs[j].state = st, !.jobs[j].substate = ss]

\* assign_hosts followed by set_resc_assigned(INCR)
assign_resc(S, j) == [S EXCEPT !.jobs[j].assigned = @ + 1]

\* rel_resc: release the job's resources and nodes; freeing a node of the job
\* pulls it out of maintenance state
rel_resc(S, j) ==
    [S EXCEPT
       !.jobs[j].assigned = @ - 1,
       !.nodes = [n \in Vnodes |->
                    IF n \in exec_vnode(j)
                    THEN [S.nodes[n] EXCEPT !.maint = FALSE]
                    ELSE S.nodes[n]]]

\* a set_admin_suspend that takes a node out of maintenance whenever a job is
\* removed from its list
set_admin_suspend_eager(S, j, set_remove_nstate) ==
    [S EXCEPT
       !.jobs[j].AdmSuspd = set_remove_nstate,
       !.nodes = [n \in Vnodes |->
                    IF n \notin exec_vnode(j) THEN S.nodes[n]
                    ELSE IF set_remove_nstate
                         THEN [maint |-> TRUE,
                               maintjobs |-> S.nodes[n].maintjobs \cup {j}]
                         ELSE [maint |-> FALSE,
                               maintjobs |-> S.nodes[n].maintjobs \ {j}]]]

\* set_admin_suspend: flag the job and walk the vnodes of its exec_vnode
set_admin_suspend(S, j, set_remove_nstate) ==
    [S EXCEPT
       !.jobs[j].AdmSuspd = set_remove_nstate,
       !.nodes = [n \in Vnodes |->
                    IF n \notin exec_vnode(j) THEN S.nodes[n]
                    ELSE IF set_remove_nstate
                         THEN [maint |-> TRUE,
                               maintjobs |-> S.nodes[n].maintjobs \cup {j}]
                         ELSE [maint |-> IF S.nodes[n].maintjobs \ {j} = {}
                                         THEN FALSE ELSE S.nodes[n].maint,
                               maintjobs |-> S.nodes[n].maintjobs \ {j}]]]

\* relay_to_mom: hand the request to the job's execution host; when it could
\* be sent (ok), post_signal_req runs once the host answers
relay_to_mom(S, r, j, ok) ==
    LET S1 == [S EXCEPT !.reqs[r].ncalls = @ + 1,
                        !.reqs[r].atrelay = S.jobs[j].assigned]
    IN  IF ok
        THEN [S1 EXCEPT !.relays = @ \cup {[req |-> r, job |-> j]}]
        ELSE S1

\* the memory of freed request records that nothing refers to any more (no
\* relay awaits an answer for the request or for a duplicate of it) is
\* returned to the allocator
Family(S, p) == {p} \cup {d \in BrIds : S.reqs[d].st # "none" /\ S.reqs[d].parentbr = p}

Reclaimable(S, p) ==
    /\ S.reqs[p].st = "freed"
    /\ S.reqs[p].parentbr = NoBr
    /\ \A d \in Family(S, p) :
          S.reqs[d].st = "freed" /\ \A rl \in S.relays : rl.req # d

reclaim(S) ==
    LET gone == UNION {Family(S, p) : p \in {q \in BrIds : Reclaimable(S, q)}}
    IN  [S EXCEPT !.reqs = [r \in BrIds |->
                             IF r \in gone THEN NoRequest ELSE S.reqs[r]],
                  !.replies = [r \in BrIds |->
                             IF r \in gone THEN <<>> ELSE S.replies[r]]]

-----------------------------------------------------------------------------
(* What the environment answers during one call of req_signaljob2:         *)
(* assign: assign_hosts succeeds; setnodes: set_nodes succeeds; relay:     *)
(* relay_to_mom succeeds; abort: a use of an already freed request record  *)
(* aborts the server instead of reading the stale record.                  *)

OkEnv == [assign |-> TRUE, setnodes |-> TRUE, relay |-> TRUE, abort |-> FALSE]

Envs ==
    {e \in [assign : BOOLEAN, setnodes : BOOLEAN, relay : BOOLEAN,
            abort : BOOLEAN] :
        /\ ~e.assign => (e.setnodes /\ e.relay)
        /\ e.abort => (~e.setnodes /\ e.relay)}

IsResume(sig) == sig \in {SIG_RESUME, SIG_ADMIN_RESUME}
IsSuspend(sig) == sig \in {SIG_SUSPEND, SIG_ADMIN_SUSPEND}

-----------------------------------------------------------------------------
(* req_signaljob2: the common per-job signal routine *)

\* the tail of req_signaljob2: pass the request on to MOM
signal_relay(S, r, j, e) ==
    IF S.reqs[r].st = "freed" /\ e.abort
    THEN [S EXCEPT !.dead = TRUE]
    ELSE LET S1 == relay_to_mom(S, r, j, e.relay)
         IN  IF ~e.relay
             THEN req_reject(IF IsResume(S.reqs[r].signame)
                             THEN rel_resc(S1, j) ELSE S1,
                             RelayErr, r)
             ELSE S1

\* a resume that relays without taking the nodes and resources back
resume_unassigned(S, r, j, e) ==
    IF ~e.assign
    THEN req_reject(S, AssignErr, r)
    ELSE LET S2 == IF S.jobs[j].dealloc /\ ~e.setnodes
                   THEN req_reject(S, SetNodesErr, r)
                   ELSE S
         IN  signal_relay(S2, r, j, e)

\* the resume of a suspended job asked by the scheduler (rq_fromsvr) or by
\* admin-resume: take the nodes and resources back, then relay
resume_authoritative(S, r, j, e) ==
    IF ~e.assign
    THEN req_reject(S, AssignErr, r)
    ELSE LET S1 == assign_resc(S, j)
             S2 == IF S1.jobs[j].dealloc /\ ~e.setnodes
                   THEN req_reject(S1, SetNodesErr, r)
                   ELSE S1
         IN  signal_relay(S2, r, j, e)

\* a resume left to the scheduler that never flags the scheduler
resume_unflagged(S, r, j, schedfound) ==
    LET S1 == svr_setjobstate(S, j, JOB_STATE_LTR_RUNNING, JOB_SUBSTATE_SCHSUSP)
    IN  reply_send([S1 EXCEPT !.reqs[r].schederr = ~schedfound], r)

\* the resume asked by anyone else: leave it to the scheduler, which is
\* flagged when find_assoc_sched_jid finds it (schedfound)
resume_by_scheduler(S, r, j, schedfound) ==
    LET S1 == svr_setjobstate(S, j, JOB_STATE_LTR_RUNNING, JOB_SUBSTATE_SCHSUSP)
        S2 == IF schedfound THEN [S1 EXCEPT !.sched = TRUE]
              ELSE [S1 EXCEPT !.reqs[r].schederr = TRUE]
    IN  reply_send(S2, r)

\* req_signaljob2 after its two state checks
signal_checked(S, r, j, e, schedfound) ==
    LET pjob == S.jobs[j]
        sig == S.reqs[r].signame
        S1 == IF IsSuspend(sig) \/ IsResume(sig)
              THEN [S EXCEPT !.reqs[r].rq_extra = j] ELSE S
    IN  IF IsResume(sig)
        THEN IF pjob.Suspend
             THEN IF S.reqs[r].fromsvr = 1 \/ sig = SIG_ADMIN_RESUME
                  THEN resume_authoritative(S1, r, j, e)
                  ELSE resume_by_scheduler(S1, r, j, schedfound)
             ELSE req_reject(S1, "PBSE_BADSTATE", r)
        ELSE signal_relay(S1, r, j, e)

\* a req_signaljob2 without the check of the resume type
req_signaljob2_anyresume(S, r, j, e, schedfound) ==
    IF \/ S.jobs[j].state # JOB_STATE_LTR_RUNNING
       \/ S.jobs[j].substate = JOB_SUBSTATE_PROVISION
    THEN req_reject(S, "PBSE_BADSTATE", r)
    ELSE signal_checked(S, r, j, e, schedfound)

req_signaljob2(S, r, j, e, schedfound) ==
    LET pjob == S.jobs[j]
        sig == S.reqs[r].signame
    IN  IF \/ pjob.state # JOB_STATE_LTR_RUNNING
           \/ (pjob.state = JOB_STATE_LTR_RUNNING
               /\ pjob.substate = JOB_SUBSTATE_PROVISION)
        THEN req_reject(S, "PBSE_BADSTATE", r)
        ELSE IF \/ (sig = SIG_ADMIN_RESUME /\ ~pjob.AdmSuspd)
                \/ (sig = SIG_RESUME /\ pjob.AdmSuspd)
        THEN req_reject(S, "PBSE_WRONG_RESUME", r)
        ELSE signal_checked(S, r, j, e, schedfound)

\* dup_br_for_subjob: a copy of the request for one subjob, sharing the
\* parent's payload and holding one reference of the parent
dup_br_for_subjob(S, r, j, e, schedfound) ==
    LET d == NextBr(S)
        S1 == [S EXCEPT
                 !.reqs[d] = [S.reqs[r] EXCEPT !.parentbr = r, !.refct = 0,
                                               !.extend = "shared",
                                               !.ncalls = 0,
                                               !.atrelay = -1],
                 !.reqs[r].refct = @ + 1]
    IN  req_signaljob2(S1, d, j, e, schedfound)

-----------------------------------------------------------------------------
(* req_signaljob: entry routing by the shape of the job id *)

\* subjob_index_to_offset / numindex_to_offset: the subjob of an index
numindex_to_offset(i) == IF i \in SubJobs THEN i ELSE NoJob

\* get_subjob_state: the state letter of a tracked subjob, "-1" without one
get_subjob_state(S, off) == IF off = NoJob THEN "-1" ELSE S.jobs[off].state

\* the indices start, start+step, ... <= end of one range group
GroupIndices(g) ==
    {i \in g.start..g.end : (i - g.start) % g.step = 0}

\* parse_subjob_index fails on a group it cannot parse
Malformed(g) == g.step < 1

\* ++rq_refct before the fan-out, --rq_refct after it
fanout_begin(S, r) == [S EXCEPT !.reqs[r].refct = @ + 1]

fanout_end(S, r) ==
    IF S.dead THEN S
    ELSE LET S1 == [S EXCEPT !.reqs[r].refct = @ - 1]
         IN  IF S1.reqs[r].refct = 0 THEN reply_send(S1, r) ELSE S1

RECURSIVE array_loop(_, _, _, _, _)
\* for (i = 0; i < tkm_ct; i++): signal each running subjob
array_loop(S, r, i, E, schedfound) ==
    IF i > NSub \/ S.dead THEN S
    ELSE LET pjob == S.jobs[i]
             sig == S.reqs[r].signame
             skip == \/ get_subjob_state(S, i) # JOB_STATE_LTR_RUNNING
                     \/ (IsSuspend(sig) /\ pjob.Suspend)
                     \/ (IsResume(sig) /\ ~pjob.Suspend)
         IN  array_loop(IF skip THEN S
                        ELSE dup_br_for_subjob(S, r, i, E[i], schedfound),
                        r, i + 1, E, schedfound)

\* a fan-out that starts at the second subjob
signal_array_from2(S, r, E, schedfound) ==
    IF S.ajstate # JOB_STATE_LTR_BEGUN
    THEN req_reject(S, "PBSE_BADSTATE", r)
    ELSE fanout_end(array_loop(fanout_begin(S, r), r, 2, E, schedfound), r)

signal_array(S, r, E, schedfound) ==
    IF S.ajstate # JOB_STATE_LTR_BEGUN
    THEN req_reject(S, "PBSE_BADSTATE", r)
    ELSE fanout_end(array_loop(fanout_begin(S, r), r, 1, E, schedfound), r)

signal_single(S, r, idx, E, schedfound) ==
    LET offset == numindex_to_offset(idx)
    IN  IF offset = NoJob THEN req_reject(S, "PBSE_UNKJOBID", r)
        ELSE IF get_subjob_state(S, offset) = "-1"
        THEN req_reject(S, "PBSE_IVALREQ", r)
        ELSE IF get_subjob_state(S, offset) = JOB_STATE_LTR_RUNNING
        THEN req_signaljob2(S, r, offset, E[offset], schedfound)
        ELSE req_reject(S, "PBSE_BADSTATE", r)

RECURSIVE range_anygood(_, _)
\* first pass over the range: the number of running subjobs, -1 on a group
\* that does not parse
range_anygood(S, range) ==
    IF range = <<>> THEN 0
    ELSE IF Malformed(Head(range)) THEN -1
    ELSE LET rest == range_anygood(S, Tail(range))
             here == Cardinality({i \in GroupIndices(Head(range)) :
                        get_subjob_state(S, numindex_to_offset(i))
                            = JOB_STATE_LTR_RUNNING})
         IN  IF rest = -1 THEN -1 ELSE here + rest

RECURSIVE group_loop_skip(_, _, _, _, _, _)
\* a second pass that skips subjobs as the loop over the whole array does
group_loop_skip(S, r, g, i, E, schedfound) ==
    IF i > g.end \/ S.dead THEN S
    ELSE LET idx == numindex_to_offset(i)
             sig == S.reqs[r].signame
             skip == \/ get_subjob_state(S, idx) # JOB_STATE_LTR_RUNNING
                     \/ (IsSuspend(sig) /\ S.jobs[idx].Suspend)
                     \/ (IsResume(sig) /\ ~S.jobs[idx].Suspend)
         IN  group_loop_skip(IF skip THEN S
                             ELSE dup_br_for_subjob(S, r, idx, E[idx],
                                                    schedfound),
                             r, g, i + g.step, E, schedfound)

RECURSIVE group_loop(_, _, _, _, _, _)
\* for (i = start; i <= end; i += step): signal each running subjob
group_loop(S, r, g, i, E, schedfound) ==
    IF i > g.end \/ S.dead THEN S
    ELSE LET idx == numindex_to_offset(i)
         IN  group_loop(IF get_subjob_state(S, idx) = JOB_STATE_LTR_RUNNING
                        THEN dup_br_for_subjob(S, r, idx, E[idx], schedfound)
                        ELSE S,
                        r, g, i + g.step, E, schedfound)

RECURSIVE range_loop(_, _, _, _, _)
\* second pass over the range
range_loop(S, r, range, E, schedfound) ==
    IF range = <<>> \/ S.dead THEN S
    ELSE IF Malformed(Head(range)) THEN req_reject(S, "PBSE_IVALREQ", r)
    ELSE range_loop(group_loop(S, r, Head(range), Head(range).start, E,
                               schedfound),
                    r, Tail(range), E, schedfound)

signal_range(S, r, range, E, schedfound) ==
    LET anygood == range_anygood(S, range)
    IN  IF anygood = -1 THEN req_reject(S, "PBSE_IVALREQ", r)
        ELSE IF anygood = 0 THEN req_reject(S, "PBSE_BADSTATE", r)
        ELSE fanout_end(range_loop(fanout_begin(S, r), r, range, E,
                                   schedfound), r)

\* chk_job_request: the job (for an array: the array job, written as its
\* first subjob) the request names, NoJob when the server holds no such job
chk_job_request(S, tg) ==
    IF tg.kind = "unknown" THEN NoJob
    ELSE IF tg.kind = "job"
    THEN (IF S.jobs[PlainJob].state = NoSuchJob THEN NoJob ELSE PlainJob)
    ELSE (IF S.ajstate = NoSuchJob THEN NoJob ELSE 1)

\* a req_signaljob that asks for operator or manager permission only when the
\* request names a plain job
req_signaljob_permlate(S, r, E, schedfound) ==
    LET tg == S.reqs[r].target
        sig == S.reqs[r].signame
    IN  IF chk_job_request(S, tg) = NoJob
        THEN req_reject(S, "PBSE_UNKJOBID", r)
        ELSE IF tg.kind = "job"
        THEN (IF (IsSuspend(sig) \/ IsResume(sig)) /\ ~S.reqs[r].oper
              THEN req_reject(S, "PBSE_PERM", r)
              ELSE req_signaljob2(S, r, PlainJob, E[PlainJob], schedfound))
        ELSE IF tg.kind = "single"
        THEN signal_single(S, r, tg.idx, E, schedfound)
        ELSE IF tg.kind = "array"
        THEN signal_array(S, r, E, schedfound)
        ELSE signal_range(S, r, tg.range, E, schedfound)

req_signaljob(S, r, E, schedfound) ==
    LET tg == S.reqs[r].target
        sig == S.reqs[r].signame
    IN  IF chk_job_request(S, tg) = NoJob
        THEN req_reject(S, "PBSE_UNKJOBID", r)
        ELSE IF (IsSuspend(sig) \/ IsResume(sig)) /\ ~S.reqs[r].oper
        THEN req_reject(S, "PBSE_PERM", r)
        ELSE IF tg.kind = "job"
        THEN req_signaljob2(S, r, PlainJob, E[PlainJob], schedfound)
        ELSE IF tg.kind = "single"
        THEN signal_single(S, r, tg.idx, E, schedfound)
        ELSE IF tg.kind = "array"
        THEN signal_array(S, r, E, schedfound)
        ELSE signal_range(S, r, tg.range, E, schedfound)

-----------------------------------------------------------------------------
(* post_signal_req: the execution host has answered a relayed signal *)

\* a post_suspend that does the admin-suspend bookkeeping before rel_resc
post_suspend_admfirst(S, r, pjob) ==
    IF S.jobs[pjob].Suspend THEN S
    ELSE LET ss == IF S.reqs[r].fromsvr = 1 \/ S.jobs[pjob].pmt
                   THEN JOB_SUBSTATE_SCHSUSP ELSE JOB_SUBSTATE_SUSPEND
             S1 == [S EXCEPT !.jobs[pjob].Suspend = TRUE]
             S2 == svr_setjobstate(S1, pjob, JOB_STATE_LTR_RUNNING, ss)
             S3 == IF S.reqs[r].signame = SIG_ADMIN_SUSPEND
                   THEN set_admin_suspend(S2, pjob, TRUE) ELSE S2
         IN  rel_resc(S3, pjob)

post_suspend(S, r, pjob) ==
    IF S.jobs[pjob].Suspend THEN S
    ELSE LET ss == IF S.reqs[r].fromsvr = 1 \/ S.jobs[pjob].pmt
                   THEN JOB_SUBSTATE_SCHSUSP ELSE JOB_SUBSTATE_SUSPEND
             S1 == [S EXCEPT !.jobs[pjob].Suspend = TRUE]
             S2 == svr_setjobstate(S1, pjob, JOB_STATE_LTR_RUNNING, ss)
             S3 == rel_resc(S2, pjob)
         IN  IF S.reqs[r].signame = SIG_ADMIN_SUSPEND
             THEN set_admin_suspend(S3, pjob, TRUE) ELSE S3

post_resume(S, r, pjob) ==
    LET S1 == [S EXCEPT !.jobs[pjob].Suspend = FALSE]
        S2 == IF S.reqs[r].signame = SIG_ADMIN_RESUME
              THEN set_admin_suspend(S1, pjob, FALSE) ELSE S1
    IN  svr_setjobstate(S2, pjob, JOB_STATE_LTR_RUNNING, JOB_SUBSTATE_RUNNING)

\* a post_signal_req that rejects a failed resume and keeps the resources
post_signal_req_leak(S, r, code, abort) ==
    LET sig == S.reqs[r].signame
        pjob == S.reqs[r].rq_extra
        running == pjob # NoJob /\ S.jobs[pjob].state = JOB_STATE_LTR_RUNNING
    IN  IF S.reqs[r].st = "freed" /\ abort
        THEN [S EXCEPT !.dead = TRUE]
        ELSE IF code # PBSE_NONE
        THEN LET rc == IF code = "PBSE_UNKJOBID" THEN "PBSE_INTERNAL" ELSE code
             IN  req_reject(S, rc, r)
        ELSE IF IsSuspend(sig) /\ running
        THEN reply_ack(post_suspend(S, r, pjob), r)
        ELSE IF IsResume(sig) /\ running
        THEN reply_ack(post_resume(S, r, pjob), r)
        ELSE reply_ack(S, r)

\* post_signal_req: the execution host has answered the relayed request
post_signal_req(S, r, code, abort) ==
    LET sig == S.reqs[r].signame
        pjob == S.reqs[r].rq_extra
        running == pjob # NoJob /\ S.jobs[pjob].state = JOB_STATE_LTR_RUNNING
    IN  IF S.reqs[r].st = "freed" /\ abort
        THEN [S EXCEPT !.dead = TRUE]
        ELSE IF code # PBSE_NONE
        THEN LET rc == IF code = "PBSE_UNKJOBID" THEN "PBSE_INTERNAL" ELSE code
             IN  req_reject(IF IsResume(sig) THEN rel_resc(S, pjob) ELSE S,
                            rc, r)
        ELSE IF IsSuspend(sig) /\ running
        THEN reply_ack(post_suspend(S, r, pjob), r)
        ELSE IF IsResume(sig) /\ running
        THEN reply_ack(post_resume(S, r, pjob), r)
        ELSE reply_ack(S, r)

-----------------------------------------------------------------------------
(* Requests the server can receive *)

Group(s, e, st) == [start |-> s, end |-> e, step |-> st]

\* index ranges: the two ends of the array as two groups, a stepped group
\* that runs past the array, and a range whose second group does not parse
Ranges ==
    {<<Group(1, 1, 1), Group(NSub, NSub, 1)>>, <<Group(1, NSub + 1, 2)>>,
     <<Group(1, 1, 1), Group(1, 1, 0)>>}

Target(k, i, rg) == [kind |-> k, idx |-> i, range |-> rg]

Targets ==
    {Target("job", 0, <<>>), Target("unknown", 0, <<>>),
     Target("array", 0, <<>>)}
        \cup {Target("single", i, <<>>) : i \in 1..(NSub + 1)}
        \cup {Target("range", 0, rg) : rg \in Ranges}

\* process_request: a request from another server (or the scheduler) has
\* every permission; a client is an operator/manager or not
Requesters ==
    {[fromsvr |-> 0, oper |-> FALSE], [fromsvr |-> 0, oper |-> TRUE],
     [fromsvr |-> 1, oper |-> TRUE]}

RECURSIVE RangeJobs(_)
RangeJobs(range) ==
    IF range = <<>> THEN {}
    ELSE (IF Malformed(Head(range)) THEN {} ELSE GroupIndices(Head(range)))
             \cup RangeJobs(Tail(range))

\* the jobs req_signaljob2 can be called for
TargetJobs(tg) ==
    CASE tg.kind = "job" -> {PlainJob}
      [] tg.kind = "single" -> {tg.idx} \cap SubJobs
      [] tg.kind = "array" -> SubJobs
      [] tg.kind = "range" -> RangeJobs(tg.range) \cap SubJobs
      [] OTHER -> {}

\* the answers of the environment that make a difference for job j
EnvsFor(sig, j) ==
    IF IsResume(sig) /\ jobs[j].Suspend
    THEN IF jobs[j].dealloc THEN Envs ELSE {e \in Envs : e.setnodes}
    ELSE {e \in Envs : e.assign /\ e.setnodes}

MomCodes == {PBSE_NONE, "PBSE_UNKJOBID", "PBSE_SYSTEM"}

-----------------------------------------------------------------------------
(* Initial states and actions *)

JobConfigs ==
    {RunningJob, ProvisioningJob, QueuedJob, SuspendedJob, SuspendedDeallocJob}

\* the states a subjob starts in (a suspended subjob whose set_nodes call
\* succeeds behaves like one without released vnodes)
SubjobConfigs == JobConfigs \ {SuspendedJob}

\* the server holds one plain job in some state
InitJob ==
    /\ quota = MaxReq
    /\ ajstate = NoSuchJob
    /\ \E c \in JobConfigs :
          jobs = [j \in JobIds |-> IF j = PlainJob THEN c ELSE AbsentJob]

\* the server holds one job array, begun or still queued
InitArray ==
    /\ quota = MaxArrayReq
    /\ \/ /\ ajstate = JOB_STATE_LTR_BEGUN
          /\ jobs \in [JobIds -> SubjobConfigs \cup {AbsentJob}]
          /\ jobs[PlainJob] = AbsentJob
          /\ \A j \in SubJobs : jobs[j] # AbsentJob
       \/ /\ ajstate = JOB_STATE_LTR_QUEUED
          /\ jobs = [j \in JobIds |->
                       IF j = PlainJob THEN AbsentJob ELSE QueuedJob]

InitRest ==
    /\ nodes = [n \in Vnodes |-> [maint |-> FALSE, maintjobs |-> {}]]
    /\ reqs = [r \in BrIds |-> NoRequest]
    /\ replies = [r \in BrIds |-> <<>>]
    /\ relays = {}
    /\ sched = FALSE
    /\ dead = FALSE

Install(S) ==
    /\ jobs' = S.jobs
    /\ ajstate' = S.ajstate
    /\ nodes' = S.nodes
    /\ reqs' = S.reqs
    /\ replies' = S.replies
    /\ relays' = S.relays
    /\ sched' = S.sched
    /\ dead' = S.dead

\* process_request/dispatch_request: a Signal-Job request arrives and
\* req_signaljob services it
RecvSignalJob ==
    /\ UNCHANGED <<authvars, libvars>>
    /\ ~dead
    /\ quota > 0
    /\ quota' = quota - 1
    /\ \E tg \in {x \in Targets : x.kind = "unknown" \/ chk_job_request(State, x) # NoJob},
          sig \in SigNames, who \in Requesters :
       \E schedfound \in (IF sig = SIG_RESUME THEN BOOLEAN ELSE {TRUE}) :
       \E F \in [TargetJobs(tg) -> Envs] :
          /\ \A j \in TargetJobs(tg) : F[j] \in EnvsFor(sig, j)
          /\ LET E == [j \in JobIds |->
                          IF j \in TargetJobs(tg) THEN F[j] ELSE OkEnv]
                 S0 == reclaim(State)
                 r == NextBr(S0)
                 S1 == alloc_br(S0, r)
                 S2 == [S1 EXCEPT !.reqs[r].signame = sig,
                                  !.reqs[r].target = tg,
                                  !.reqs[r].fromsvr = who.fromsvr,
                                  !.reqs[r].oper = who.oper,
                                  !.reqs[r].extend = "held"]
             IN  Install(req_signaljob(S2, r, E, schedfound))

\* the execution host answers a relayed request: post_signal_req
MomReply ==
    /\ UNCHANGED <<authvars, libvars>>
    /\ ~dead
    /\ quota' = quota
    /\ \E rl \in relays, code \in MomCodes :
       \E abort \in (IF reqs[rl.req].st = "freed" THEN BOOLEAN ELSE {FALSE}) :
          LET S0 == reclaim(State)
          IN  Install(post_signal_req([S0 EXCEPT !.relays = @ \ {rl}],
                                      rl.req, code, abort))

Next == RecvSignalJob \/ MomReply


-----------------------------------------------------------------------------
(* Request intake and authentication: connections and channels *)

Conns == 1..NConn
NoConn == 0
\* the port of a connection (cn_port); all modelled peers have one address
cn_port(c) == c

PBS_NET_CONN_AUTHENTICATED == "AUTHENTICATED"
PBS_NET_CONN_FROM_PRIVIL == "FROM_PRIVIL"
PBS_NET_CONN_TO_SCHED == "TO_SCHED"

FOR_AUTH == "FOR_AUTH"
FOR_ENCRYPT == "FOR_ENCRYPT"
Dirs == {FOR_AUTH, FOR_ENCRYPT}

AUTH_STATUS_UNKNOWN == "UNKNOWN"
AUTH_STATUS_CTX_ESTABLISHING == "ESTABLISHING"
AUTH_STATUS_CTX_READY == "READY"

AUTH_CTX_DATA == "AUTH_CTX_DATA"
AUTH_CTX_OK == "AUTH_CTX_OK"
AUTH_ERR_DATA == "AUTH_ERR_DATA"

\* method names: the reserved-port method, a provider that can encrypt, a
\* provider that cannot, a configured method whose library does not load,
\* and a method the server is not configured for
AUTH_RESVPORT_NAME == "resvport"
AuthMethods == {AUTH_RESVPORT_NAME, "gss", "munge", "nolib", "other"}
EncryptMethods == {"", "gss", "munge", "nolib"}
supported_auth_methods == {AUTH_RESVPORT_NAME, "gss", "munge", "nolib"}

NoDef == "NULL"
NoCtx == "NULL"

\* get_auth: the definition of a method, NULL when no library loads for it
get_auth(method) == IF method \in {"gss", "munge"} THEN method ELSE NoDef

\* whether a definition has encrypt_data and decrypt_data
CanEncrypt(def) == def = "gss"

PBS_BATCH_Connect == "Connect"
PBS_BATCH_Authenticate == "Authenticate"
PBS_BATCH_SignalJob == "SignalJob"
PBS_BATCH_QueueJob == "QueueJob"
ReqTypes ==
    {PBS_BATCH_Connect, PBS_BATCH_Authenticate, PBS_BATCH_SignalJob,
     PBS_BATCH_QueueJob}

NoChan ==
    [d \in Dirs |-> [status |-> AUTH_STATUS_UNKNOWN, def |-> NoDef, ctx |-> NoCtx]]

ClosedConn ==
    [open |-> FALSE, authen |-> {}, auth_method |-> "", credid |-> FALSE]

NoRequestRead ==
    [seq |-> 0, conn |-> NoConn, type |-> "", reply |-> "", handler |-> "",
     cp |-> NoConn, method |-> "", encrypt |-> ""]

AuthState == [conn |-> conn, chan |-> chan, done |-> done, last |-> last]

\* close_client/close_conn: the connection leaves the table and its channel
\* is torn down (the flags the connection had stay on record)
close_client(A, c) ==
    [A EXCEPT !.conn[c] = [ClosedConn EXCEPT !.authen = A.conn[c].authen],
              !.chan[c] = NoChan, !.done[c] = {}]

\* the record of what became of a request: the reply written ("" for none)
\* and the handler the request was passed to ("" for none)
Outcome(A, c, type, reply, handler) ==
    [A EXCEPT !.last = [NoRequestRead EXCEPT !.seq = A.last.seq + 1,
                                             !.conn = c, !.type = type,
                                             !.reply = reply,
                                             !.handler = handler]]

\* req_reject followed by close_client
RejectClose(A, c, type, code) == close_client(Outcome(A, c, type, code, ""), c)

-----------------------------------------------------------------------------
(* req_authenticate *)

\* the connection a reserved-port Authenticate request speaks for: the first
\* open one with the claimed port
resvport_target(A, port) ==
    IF \E x \in Conns : A.conn[x].open /\ cn_port(x) = port
    THEN CHOOSE x \in Conns :
            /\ A.conn[x].open /\ cn_port(x) = port
            /\ \A y \in Conns :
                  (A.conn[y].open /\ cn_port(y) = port) => x <= y
    ELSE NoConn

\* a tail of req_authenticate that leaves the authentication direction of a
\* reserved-port connection as it found it
arm_channel_noready(A, c, rq, cp, authdef, encryptdef) ==
    IF ~rq.cfgok
    THEN RejectClose(A, c, PBS_BATCH_Authenticate, "PBSE_SYSTEM")
    ELSE LET A1 == [A EXCEPT !.conn[cp].auth_method = rq.auth_method]
             A2 == IF encryptdef # NoDef
                   THEN [A1 EXCEPT
                           !.chan[cp][FOR_ENCRYPT].def = encryptdef,
                           !.chan[cp][FOR_ENCRYPT].status =
                               AUTH_STATUS_CTX_ESTABLISHING]
                   ELSE A1
             A3 == IF authdef # NoDef
                   THEN [A2 EXCEPT
                           !.chan[cp][FOR_AUTH].def = authdef,
                           !.chan[cp][FOR_AUTH].status =
                               AUTH_STATUS_CTX_ESTABLISHING]
                   ELSE A2
             A5 == Outcome(A3, c, PBS_BATCH_Authenticate, PBSE_NONE,
                           "req_authenticate")
         IN  [A5 EXCEPT !.last.cp = cp, !.last.method = rq.auth_method,
                        !.last.encrypt = rq.encrypt_method]

\* the tail of req_authenticate once the target connection cp is known
arm_channel(A, c, rq, cp, authdef, encryptdef) ==
    IF ~rq.cfgok
    THEN RejectClose(A, c, PBS_BATCH_Authenticate, "PBSE_SYSTEM")
    ELSE LET A1 == [A EXCEPT !.conn[cp].auth_method = rq.auth_method]
             A2 == IF encryptdef # NoDef
                   THEN [A1 EXCEPT
                           !.chan[cp][FOR_ENCRYPT].def = encryptdef,
                           !.chan[cp][FOR_ENCRYPT].status =
                               AUTH_STATUS_CTX_ESTABLISHING]
                   ELSE A1
             A3 == IF authdef # NoDef
                   THEN [A2 EXCEPT
                           !.chan[cp][FOR_AUTH].def = authdef,
                           !.chan[cp][FOR_AUTH].status =
                               AUTH_STATUS_CTX_ESTABLISHING]
                   ELSE A2
             A4 == IF rq.auth_method = AUTH_RESVPORT_NAME
                   THEN [A3 EXCEPT !.chan[cp][FOR_AUTH].status =
                                       AUTH_STATUS_CTX_READY]
                   ELSE A3
             A5 == Outcome(A4, c, PBS_BATCH_Authenticate, PBSE_NONE,
                           "req_authenticate")
         IN  [A5 EXCEPT !.last.cp = cp, !.last.method = rq.auth_method,
                        !.last.encrypt = rq.encrypt_method]

req_authenticate(A, c, rq) ==
    LET encryptdef == IF rq.encrypt_method # ""
                      THEN get_auth(rq.encrypt_method) ELSE NoDef
        cp == resvport_target(A, rq.port)
    IN  IF rq.auth_method \notin supported_auth_methods
        THEN RejectClose(A, c, PBS_BATCH_Authenticate, "PBSE_NOSUP")
        ELSE IF rq.encrypt_method # ""
                /\ (encryptdef = NoDef \/ ~CanEncrypt(encryptdef))
        THEN RejectClose(A, c, PBS_BATCH_Authenticate, "PBSE_NOSUP")
        ELSE IF rq.auth_method # AUTH_RESVPORT_NAME
        THEN IF get_auth(rq.auth_method) = NoDef
             THEN RejectClose(A, c, PBS_BATCH_Authenticate, "PBSE_NOSUP")
             ELSE arm_channel(A, c, rq, c, get_auth(rq.auth_method),
                              encryptdef)
        ELSE IF PBS_NET_CONN_FROM_PRIVIL \notin A.conn[c].authen
        THEN RejectClose(A, c, PBS_BATCH_Authenticate, "PBSE_BADCRED")
        ELSE IF cp = NoConn
        THEN RejectClose(A, c, PBS_BATCH_Authenticate, "PBSE_BADCRED")
        ELSE arm_channel(
                 [A EXCEPT !.conn[cp].authen =
                               @ \cup {PBS_NET_CONN_AUTHENTICATED}],
                 c, rq, cp, NoDef, encryptdef)

-----------------------------------------------------------------------------
(* process_request (server build) *)

\* a gate that lets a request pass while the direction is establishing
credential_missing_unlessarmed(A, c, type) ==
    /\ PBS_NET_CONN_TO_SCHED \notin A.conn[c].authen
    /\ type # PBS_BATCH_Connect
    /\ A.chan[c][FOR_AUTH].status = AUTH_STATUS_UNKNOWN
    /\ PBS_NET_CONN_AUTHENTICATED \notin A.conn[c].authen

\* the request needs a credential and the connection has none
credential_missing(A, c, type) ==
    /\ PBS_NET_CONN_TO_SCHED \notin A.conn[c].authen
    /\ type # PBS_BATCH_Connect
    /\ A.chan[c][FOR_AUTH].status # AUTH_STATUS_CTX_READY
    /\ PBS_NET_CONN_AUTHENTICATED \notin A.conn[c].authen

\* the principal of the connection is checked against the realm list
\* (build with PBS_SECURITY = KRB5)
access_by_krb(A, c) ==
    /\ A.conn[c].credid
    /\ PBS_NET_CONN_TO_SCHED \notin A.conn[c].authen
    /\ A.conn[c].auth_method = "gss"

\* the checks after the connection is flagged authenticated: the realm and
\* host access lists, the source of the request, the server state
admit_request(A, c, rq) ==
    IF access_by_krb(A, c) /\ rq.acl = "realm"
    THEN RejectClose(A, c, rq.type, "PBSE_PERM")
    ELSE IF ~access_by_krb(A, c) /\ rq.acl = "host"
    THEN RejectClose(A, c, rq.type, "PBSE_BADHOST")
    ELSE IF PBS_NET_CONN_FROM_PRIVIL \notin A.conn[c].authen
            /\ rq.type = PBS_BATCH_Connect
    THEN Outcome(A, c, rq.type, PBSE_NONE, "req_connect")
    ELSE IF PBS_NET_CONN_FROM_PRIVIL \notin A.conn[c].authen
            /\ PBS_NET_CONN_AUTHENTICATED \notin A.conn[c].authen
    THEN RejectClose(A, c, rq.type, "PBSE_BADCRED")
    ELSE IF PBS_NET_CONN_FROM_PRIVIL \notin A.conn[c].authen
            /\ rq.authuser = "PBSE_BADCRED"
    THEN RejectClose(A, c, rq.type, "PBSE_BADCRED")
    ELSE IF PBS_NET_CONN_FROM_PRIVIL \notin A.conn[c].authen
            /\ rq.authuser # PBSE_NONE
    THEN Outcome(A, c, rq.type, rq.authuser, "")
    ELSE IF rq.svrdown /\ rq.type = PBS_BATCH_QueueJob
    THEN Outcome(A, c, rq.type, "PBSE_SVRDOWN", "")
    ELSE Outcome(A, c, rq.type, PBSE_NONE, "dispatch_request")

\* the credential check and the capture of the peer identity
check_credential(A, c, rq) ==
    IF credential_missing(A, c, rq.type)
    THEN RejectClose(A, c, rq.type, "PBSE_BADCRED")
    ELSE IF PBS_NET_CONN_TO_SCHED \in A.conn[c].authen
            \/ rq.type = PBS_BATCH_Connect
    THEN admit_request(A, c, rq)
    ELSE IF ~A.conn[c].credid
            /\ A.conn[c].auth_method \notin {"", AUTH_RESVPORT_NAME}
    THEN IF A.chan[c][FOR_AUTH].def = NoDef \/ rq.userinfo = "fail"
         THEN RejectClose(A, c, rq.type, "PBSE_PERM")
         ELSE IF rq.userinfo = "nomem"
         THEN RejectClose(A, c, rq.type, "PBSE_SYSTEM")
         ELSE admit_request(
                  [A EXCEPT !.conn[c].credid = (rq.userinfo = "realm"),
                            !.conn[c].authen =
                                @ \cup {PBS_NET_CONN_AUTHENTICATED}],
                  c, rq)
    ELSE admit_request(
             [A EXCEPT !.conn[c].authen =
                           @ \cup {PBS_NET_CONN_AUTHENTICATED}],
             c, rq)

\* a process_request that closes the connection of a peer without a name
process_request_closing(A, c, rq) ==
    IF ~rq.hostok
    THEN RejectClose(A, c, "", "PBSE_BADHOST")
    ELSE IF rq.decode \in {"ENOMEM", "EOF", "PBSE_SYSTEM"}
    THEN close_client(Outcome(A, c, "", "", ""), c)
    ELSE IF rq.decode # PBSE_NONE
    THEN RejectClose(A, c, "", rq.decode)
    ELSE IF rq.type = PBS_BATCH_Authenticate
    THEN req_authenticate(A, c, rq)
    ELSE check_credential(A, c, rq)

\* process_request: the peer's name is looked up, the request is decoded and
\* passed on
process_request(A, c, rq) ==
    IF ~rq.hostok
    THEN Outcome(A, c, "", "PBSE_BADHOST", "")
    ELSE IF rq.decode \in {"ENOMEM", "EOF", "PBSE_SYSTEM"}
    THEN close_client(Outcome(A, c, "", "", ""), c)
    ELSE IF rq.decode # PBSE_NONE
    THEN RejectClose(A, c, "", rq.decode)
    ELSE IF rq.type = PBS_BATCH_Authenticate
    THEN req_authenticate(A, c, rq)
    ELSE check_credential(A, c, rq)

-----------------------------------------------------------------------------
(* engage_server_auth: one received packet of a handshake *)

\* a step that promotes the authentication direction whatever definition
\* it has
server_handshake_step_anydef(A, c, for_encrypt, hs) ==
    LET authdef == A.chan[c][for_encrypt].def
        authctx == IF A.chan[c][for_encrypt].ctx = NoCtx
                   THEN for_encrypt ELSE A.chan[c][for_encrypt].ctx
        A1 == [A EXCEPT !.chan[c][for_encrypt].ctx = authctx]
        A2 == IF hs.provider = "done"
              THEN [A1 EXCEPT !.done[c] = @ \cup {authctx}] ELSE A1
        A3 == IF hs.provider = "done"
              THEN [A2 EXCEPT !.chan[c][for_encrypt].status =
                                  AUTH_STATUS_CTX_READY]
              ELSE A2
    IN  IF authdef = NoDef THEN A
        ELSE IF A.chan[c][for_encrypt].ctx = NoCtx /\ ~hs.ctxok THEN A
        ELSE IF hs.pkt # AUTH_CTX_DATA THEN A1
        ELSE IF hs.provider = "fail" THEN A1
        ELSE IF ~hs.sendok THEN A2
        ELSE IF for_encrypt = FOR_ENCRYPT
                /\ A3.chan[c][FOR_AUTH].def # NoDef
        THEN [A3 EXCEPT !.chan[c][FOR_AUTH].status = AUTH_STATUS_CTX_READY,
                        !.chan[c][FOR_AUTH].ctx = authctx]
        ELSE A3

\* the step taken while the direction is establishing; hs tells what the
\* environment does: whether a context can be created, the packet received
\* ("" for none), the provider's answer and whether packets can be sent
server_handshake_step(A, c, for_encrypt, hs) ==
    LET authdef == A.chan[c][for_encrypt].def
        authctx == IF A.chan[c][for_encrypt].ctx = NoCtx
                   THEN for_encrypt ELSE A.chan[c][for_encrypt].ctx
        A1 == [A EXCEPT !.chan[c][for_encrypt].ctx = authctx]
        A2 == IF hs.provider = "done"
              THEN [A1 EXCEPT !.done[c] = @ \cup {authctx}] ELSE A1
        A3 == IF hs.provider = "done"
              THEN [A2 EXCEPT !.chan[c][for_encrypt].status =
                                  AUTH_STATUS_CTX_READY]
              ELSE A2
    IN  IF authdef = NoDef THEN A
        ELSE IF A.chan[c][for_encrypt].ctx = NoCtx /\ ~hs.ctxok THEN A
        ELSE IF hs.pkt # AUTH_CTX_DATA THEN A1
        ELSE IF hs.provider = "fail" THEN A1
        ELSE IF ~hs.sendok THEN A2
        ELSE IF for_encrypt = FOR_ENCRYPT
                /\ A3.chan[c][FOR_AUTH].def # NoDef
                /\ A3.chan[c][FOR_AUTH].def = authdef
        THEN [A3 EXCEPT !.chan[c][FOR_AUTH].status = AUTH_STATUS_CTX_READY,
                        !.chan[c][FOR_AUTH].ctx = authctx]
        ELSE A3

\* an engage_server_auth that forgets a ready direction when data arrives
engage_server_auth_forgetful(A, c, for_encrypt, hs) ==
    IF A.chan[c][for_encrypt].status = AUTH_STATUS_CTX_READY
    THEN [A EXCEPT !.chan[c][for_encrypt].status = AUTH_STATUS_UNKNOWN]
    ELSE IF A.chan[c][for_encrypt].status # AUTH_STATUS_CTX_ESTABLISHING
    THEN A
    ELSE server_handshake_step(A, c, for_encrypt, hs)

engage_server_auth(A, c, for_encrypt, hs) ==
    IF A.chan[c][for_encrypt].status # AUTH_STATUS_CTX_ESTABLISHING
    THEN A
    ELSE server_handshake_step(A, c, for_encrypt, hs)

-----------------------------------------------------------------------------
(* What reaches the server on a connection *)

NoFault ==
    [hostok |-> TRUE, decode |-> PBSE_NONE, type |-> PBS_BATCH_SignalJob,
     auth_method |-> "", encrypt_method |-> "", port |-> NoConn,
     cfgok |-> TRUE, userinfo |-> "realm", acl |-> "ok",
     authuser |-> PBSE_NONE, svrdown |-> FALSE]

\* a request that is not read to the end: no request structure ("ENOMEM"),
\* no peer host name, or a failure of wire_decode_batch_request
Unreadable ==
    {[NoFault EXCEPT !.hostok = FALSE]}
        \cup {[NoFault EXCEPT !.decode = x] :
                  x \in {"ENOMEM", "EOF", "PBSE_SYSTEM", "PBSE_PROTOCOL"}}

Authenticate(a, e, p) ==
    [NoFault EXCEPT !.type = PBS_BATCH_Authenticate, !.auth_method = a,
                    !.encrypt_method = e, !.port = p]

\* Authenticate requests: every pair of methods, with a claimed port for the
\* reserved-port method, and requests for which make_auth_config fails
AuthenticateRequests ==
    {Authenticate(a, e, NoConn) :
        a \in AuthMethods \ {AUTH_RESVPORT_NAME}, e \in EncryptMethods}
        \cup {Authenticate(AUTH_RESVPORT_NAME, e, p) :
                  e \in {"", "gss"}, p \in Conns \cup {NoConn}}
        \cup {[Authenticate(a, "", 1) EXCEPT !.cfgok = FALSE] :
                  a \in {AUTH_RESVPORT_NAME, "gss"}}

\* any other request, with at most one thing going wrong after the
\* credential check
OtherRequests ==
    UNION {{[NoFault EXCEPT !.type = ty]}
             \cup {[NoFault EXCEPT !.type = ty, !.userinfo = u] :
                      u \in {"fail", "nomem", "user"}}
             \cup {[NoFault EXCEPT !.type = ty, !.acl = a] :
                      a \in {"realm", "host"}}
             \cup {[NoFault EXCEPT !.type = ty, !.authuser = r] :
                      r \in {"PBSE_BADCRED", "PBSE_PERM"}}
             \cup {[NoFault EXCEPT !.type = ty, !.svrdown = TRUE]} :
           ty \in ReqTypes \ {PBS_BATCH_Authenticate}}

Requests == Unreadable \cup AuthenticateRequests \cup OtherRequests

HandshakeInputs ==
    {[ctxok |-> TRUE, pkt |-> AUTH_CTX_DATA, provider |-> pr, sendok |-> TRUE] :
        pr \in {"fail", "more", "done"}}
        \cup {[ctxok |-> FALSE, pkt |-> AUTH_CTX_DATA, provider |-> "more",
               sendok |-> TRUE],
              [ctxok |-> TRUE, pkt |-> "", provider |-> "more",
               sendok |-> TRUE],
              [ctxok |-> TRUE, pkt |-> AUTH_CTX_OK, provider |-> "more",
               sendok |-> TRUE],
              [ctxok |-> TRUE, pkt |-> AUTH_CTX_DATA, provider |-> "done",
               sendok |-> FALSE]}

-----------------------------------------------------------------------------
(* wire_decode_batch_request: the top-level request decoder (dis_read.c) *)

PBS_BATCH_Disconnect == "Disconnect"
PBS_BATCH_StatusJob == "StatusJob"
PBS_BATCH_RunJob == "RunJob"
PBS_BATCH_CopyFiles == "CopyFiles"
\* a request-type code that no case of the switch names
UnknownType == "999"

\* the cases of the switch in both builds, in the server (#ifndef PBS_MOM)
\* and in MOM
CommonTypes ==
    {PBS_BATCH_Connect, PBS_BATCH_Disconnect, PBS_BATCH_QueueJob,
     PBS_BATCH_SignalJob, PBS_BATCH_StatusJob, PBS_BATCH_Authenticate}
ServerTypes == {PBS_BATCH_RunJob}
MomTypes == {PBS_BATCH_CopyFiles}
KnownTypes(build) ==
    CommonTypes \cup (IF build = "server" THEN ServerTypes ELSE MomTypes)

\* the result of the decoder: its return code, and whether a body decoder
\* and the extension decoder were called
Decoded(rc, body, extend) == [rc |-> rc, body |-> body, extend |-> extend]

\* a decoder that hands the return code of a failed body decoder on
wire_decode_batch_request_bodyrc(buf, build) ==
    IF \/ buf.hdr # PBSE_NONE
       \/ buf.proto_type # "ProtType_Batch"
       \/ buf.proto_ver > 0
    THEN Decoded("PBSE_PROTOCOL", FALSE, FALSE)
    ELSE IF buf.rq_type = PBS_BATCH_Disconnect
    THEN Decoded("EOF", FALSE, FALSE)
    ELSE LET known == buf.rq_type \in KnownTypes(build)
             hasbody == known /\ buf.rq_type # PBS_BATCH_Connect
             rc == IF ~known THEN "PBSE_UNKREQ"
                   ELSE IF hasbody THEN buf.body ELSE PBSE_NONE
         IN  IF rc = PBSE_NONE
             THEN Decoded(IF buf.extend # PBSE_NONE THEN "PBSE_PROTOCOL"
                          ELSE PBSE_NONE, hasbody, TRUE)
             ELSE Decoded(rc, hasbody, FALSE)

\* a decoder that reports every failure as a protocol error
wire_decode_batch_request_strict(buf, build) ==
    IF \/ buf.hdr # PBSE_NONE
       \/ buf.proto_type # "ProtType_Batch"
       \/ buf.proto_ver > 0
    THEN Decoded("PBSE_PROTOCOL", FALSE, FALSE)
    ELSE IF buf.rq_type = PBS_BATCH_Disconnect
    THEN Decoded("EOF", FALSE, FALSE)
    ELSE LET known == buf.rq_type \in KnownTypes(build)
             hasbody == known /\ buf.rq_type # PBS_BATCH_Connect
             rc == IF ~known THEN "PBSE_UNKREQ"
                   ELSE IF hasbody THEN buf.body ELSE PBSE_NONE
         IN  IF rc = PBSE_NONE
             THEN Decoded(IF buf.extend # PBSE_NONE THEN "PBSE_PROTOCOL"
                          ELSE PBSE_NONE, hasbody, TRUE)
             ELSE Decoded("PBSE_PROTOCOL", hasbody, FALSE)

\* buf gives what the generated readers find in the buffer: the return code
\* of the header decoder, the protocol type, the protocol version (as its
\* distance above PBS_BATCH_PROT_VER), the request type, and the return
\* codes the body decoder and the extension decoder would give
wire_decode_batch_request(buf, build) ==
    IF \/ buf.hdr # PBSE_NONE
       \/ buf.proto_type # "ProtType_Batch"
       \/ buf.proto_ver > 0
    THEN Decoded("PBSE_PROTOCOL", FALSE, FALSE)
    ELSE IF buf.rq_type = PBS_BATCH_Disconnect
    THEN Decoded("EOF", FALSE, FALSE)
    ELSE LET known == buf.rq_type \in KnownTypes(build)
             hasbody == known /\ buf.rq_type # PBS_BATCH_Connect
             rc == IF ~known THEN "PBSE_UNKREQ"
                   ELSE IF hasbody THEN buf.body ELSE PBSE_NONE
         IN  IF rc = PBSE_NONE
             THEN Decoded(IF buf.extend # PBSE_NONE THEN "PBSE_PROTOCOL"
                          ELSE PBSE_NONE, hasbody, TRUE)
             ELSE IF rc # "PBSE_UNKREQ"
             THEN Decoded("PBSE_PROTOCOL", hasbody, FALSE)
             ELSE Decoded(rc, hasbody, FALSE)

\* the buffers the decoder can be given
Bufs ==
    [hdr : {PBSE_NONE, "PBSE_SYSTEM"},
     proto_type : {"ProtType_Batch", "ProtType_Other"},
     proto_ver : {-1, 0, 1},
     rq_type : CommonTypes \cup ServerTypes \cup MomTypes \cup {UnknownType},
     body : {PBSE_NONE, "PBSE_SYSTEM", "PBSE_BADATVAL"},
     extend : {PBSE_NONE, "PBSE_SYSTEM"}]

-----------------------------------------------------------------------------
(* Initial states and actions of the intake *)

\* no client is connected
NoConns ==
    /\ NoLib
    /\ conn = [c \in Conns |-> ClosedConn]
    /\ chan = [c \in Conns |-> NoChan]
    /\ done = [c \in Conns |-> {}]
    /\ last = NoRequestRead

\* no job is held and no Signal-Job request arrives
NoJobs ==
    /\ quota = 0
    /\ ajstate = NoSuchJob
    /\ jobs = [j \in JobIds |-> AbsentJob]
    /\ InitRest

\* the flags a connection has when it is accepted
AcceptedFlags ==
    {{}, {PBS_NET_CONN_FROM_PRIVIL}, {PBS_NET_CONN_TO_SCHED}}

\* every connection has just been accepted
InitConns ==
    /\ NoLib
    /\ conn \in [Conns -> {[ClosedConn EXCEPT !.open = TRUE, !.authen = f] :
                              f \in AcceptedFlags}]
    /\ chan = [c \in Conns |-> NoChan]
    /\ done = [c \in Conns |-> {}]
    /\ last = NoRequestRead

InstallAuth(A) ==
    /\ conn' = A.conn
    /\ chan' = A.chan
    /\ done' = A.done
    /\ last' = A.last

\* a request arrives on an open client connection
ProcessRequest ==
    /\ UNCHANGED <<sigvars, libvars>>
    /\ last.seq < MaxAuthReq
    /\ \E c \in Conns, rq \in Requests :
          /\ conn[c].open
          /\ InstallAuth(process_request(AuthState, c, rq))

\* a packet arrives while the transport layer serves a handshake
ServerAuthStep ==
    /\ UNCHANGED <<sigvars, libvars>>
    /\ \E c \in Conns, d \in Dirs, hs \in HandshakeInputs :
          /\ conn[c].open
          /\ InstallAuth(engage_server_auth(AuthState, c, d, hs))

\* the peer goes away
PeerClose ==
    /\ UNCHANGED <<sigvars, libvars>>
    /\ \E c \in Conns :
          /\ conn[c].open
          /\ InstallAuth(close_client(AuthState, c))

NextAuth == ProcessRequest \/ ServerAuthStep \/ PeerClose

\* the server holds one plain job and no client is connected yet
Init == InitJob /\ InitRest /\ NoConns

\* the server holds one job array
InitArrayJob == InitArray /\ InitRest /\ NoConns

\* the server holds no job and its client connections are accepted
InitAuth == InitConns /\ NoJobs

\* the server holds one suspended plain job and takes one request more
InitSuspendedJob ==
    /\ quota = MaxReq + 1
    /\ ajstate = NoSuchJob
    /\ jobs = [j \in JobIds |-> IF j = PlainJob THEN SuspendedJob ELSE AbsentJob]
    /\ InitRest
    /\ NoConns

\* the server holds one plain job and one begun job array
InitMixed ==
    /\ quota = MaxArrayReq
    /\ ajstate = JOB_STATE_LTR_BEGUN
    /\ jobs \in [JobIds -> {RunningJob, SuspendedJob}]
    /\ InitRest
    /\ NoConns

\* the server holds no job and no connection: a library routine is run
Idle ==
    /\ NoJobs
    /\ conn = [c \in Conns |-> ClosedConn]
    /\ chan = [c \in Conns |-> NoChan]
    /\ done = [c \in Conns |-> {}]
    /\ last = NoRequestRead

\* the decoder is given one buffer
InitDecode ==
    /\ mem \in [buf : Bufs, build : {"server", "mom"}]
    /\ out = NoOut
    /\ Idle

\* process_request calls the decoder on the buffer it has read
DecodeRequest ==
    /\ UNCHANGED <<sigvars, authvars, mem>>
    /\ out = NoOut
    /\ out' = wire_decode_batch_request(mem.buf, mem.build)

-----------------------------------------------------------------------------
(* get_auth and the registry of loaded authentication methods (auth.c) *)

\* what happens when the library of a method is loaded: it loads, the file
\* does not load, a required symbol is missing, or calloc fails
LoadResults == {"ok", "nolib", "nosym", "nomem"}

\* the registry: the list loaded_auths of entries (each a distinct auth_def_t,
\* told apart by its address), the number of calls of _load_lib so far, and
\* the number of calls of get_auth
NoRegistry == [loaded_auths |-> <<>>, addr |-> 0, nload |-> 0, ncall |-> 0]

NoEntry == [addr |-> 0, name |-> "NULL"]

\* _load_auth: a new entry for the method, NoEntry when there is none
load_auth(R, name, env) ==
    IF name = AUTH_RESVPORT_NAME \/ env = "nomem"
    THEN [reg |-> R, auth |-> NoEntry]
    ELSE LET R1 == [R EXCEPT !.nload = @ + 1]
         IN  IF env = "ok"
             THEN [reg |-> [R1 EXCEPT !.addr = @ + 1],
                   auth |-> [addr |-> R.addr + 1, name |-> name]]
             ELSE [reg |-> R1, auth |-> NoEntry]

\* the entries of the list with the name of the method, in list order
Named(R, method) ==
    SelectSeq(R.loaded_auths, LAMBDA a : a.name = method)

\* a get_auth that loads the library on every call
get_auth_reload(R, method, env) ==
    LET l == load_auth(R, method, env)
    IN  IF l.auth = NoEntry THEN l
        ELSE [reg |-> [l.reg EXCEPT !.loaded_auths = <<l.auth>> \o @],
              auth |-> l.auth]

\* get_auth on the registry: the first entry of the list with the name, else
\* a newly loaded entry put at the head of the list
get_auth_registry(R, method, env) ==
    IF Named(R, method) # <<>>
    THEN [reg |-> R, auth |-> Head(Named(R, method))]
    ELSE LET l == load_auth(R, method, env)
         IN  IF l.auth = NoEntry THEN l
             ELSE [reg |-> [l.reg EXCEPT !.loaded_auths = <<l.auth>> \o @],
                   auth |-> l.auth]

\* unload_auths: every entry is unloaded and freed
unload_auths(R) == [R EXCEPT !.loaded_auths = <<>>]

RegistryMethods == {AUTH_RESVPORT_NAME, "gss", "munge"}

InitRegistry ==
    /\ mem = NoRegistry
    /\ out = NoOut
    /\ Idle

\* a caller looks a method up
GetAuth ==
    /\ UNCHANGED <<sigvars, authvars>>
    /\ mem.ncall < MaxGetAuth
    /\ \E method \in RegistryMethods, env \in LoadResults :
          LET g == get_auth_registry(mem, method, env)
          IN  /\ mem' = [g.reg EXCEPT !.ncall = @ + 1]
              /\ out' = [rc |-> "returned", method |-> method,
                          auth |-> g.auth]

UnloadAuths ==
    /\ UNCHANGED <<sigvars, authvars>>
    /\ mem.loaded_auths # <<>>
    /\ mem' = unload_auths(mem)
    /\ out' = NoOut

NextRegistry == GetAuth \/ UnloadAuths

-----------------------------------------------------------------------------
(* pbs_gss_wrap and pbs_gss_unwrap (pbs_gss.c) *)

PBS_GSS_OK == "PBS_GSS_OK"
PBS_GSS_ERR_INTERNAL == "PBS_GSS_ERR_INTERNAL"
PBS_GSS_ERR_WRAP == "PBS_GSS_ERR_WRAP"
PBS_GSS_ERR_UNWRAP == "PBS_GSS_ERR_UNWRAP"

\* a buffer: a NULL pointer, or memory holding bytes
NullBuf == [null |-> TRUE, bytes |-> <<>>]
Buf(bytes) == [null |-> FALSE, bytes |-> bytes]

Bytes == {0, 1}
Plaintexts == UNION {[1..n -> Bytes] : n \in 0..MaxText}

\* gss_wrap and gss_unwrap of the GSS library: a token is a header byte
\* followed by the enciphered message, and only a token unwraps
Flip(bytes) == [i \in 1..Len(bytes) |-> 1 - bytes[i]]
gss_wrap(bytes) == <<1>> \o Flip(bytes)
IsToken(bytes) == bytes # <<>> /\ Head(bytes) = 1
gss_unwrap(bytes) == Flip(Tail(bytes))

\* what the calls made inside can do: all succeed, the malloc of the cleartext
\* cache returns NULL (pbs_gss_wrap only), the malloc of *data_out returns
\* NULL, or the GSS library reports an error
WrapEnvs == {"ok", "nocache", "nomem", "gsserr"}
UnwrapEnvs == {"ok", "nomem", "gsserr"}

\* the result of a call: the context it leaves, its return code and *data_out
GssResult(X, rc, data) == [extra |-> X, rc |-> rc, data |-> data]

\* pbs_gss_wrap(extra, data_in, len_in, ...) with data_in holding bytes
pbs_gss_wrap(X, bytes, env) ==
    IF env = "nocache"
    THEN GssResult([X EXCEPT !.cleartext = NullBuf], PBS_GSS_ERR_INTERNAL,
                   NullBuf)
    ELSE LET X1 == [X EXCEPT !.cleartext = Buf(bytes)]
         IN  IF ~X.ready
             THEN GssResult(X1, PBS_GSS_ERR_INTERNAL, NullBuf)
             ELSE IF env = "gsserr"
             THEN GssResult(X1, PBS_GSS_ERR_WRAP, NullBuf)
             ELSE IF env = "nomem"
             THEN GssResult(X1, PBS_GSS_ERR_INTERNAL, NullBuf)
             ELSE GssResult(X1, PBS_GSS_OK, Buf(gss_wrap(bytes)))

\* the branch of pbs_gss_unwrap for len_in == 0 && data_in == NULL
unwrap_cached(X, env) ==
    IF X.cleartext.null
    THEN GssResult(X, PBS_GSS_ERR_INTERNAL, NullBuf)
    ELSE IF env = "nomem"
    THEN GssResult(X, PBS_GSS_ERR_INTERNAL, NullBuf)
    ELSE GssResult([X EXCEPT !.cleartext = NullBuf], PBS_GSS_OK,
                   X.cleartext)

\* the branch of pbs_gss_unwrap for wrapped data
unwrap_token(X, data_in, env) ==
    IF env = "gsserr" \/ ~IsToken(data_in.bytes)
    THEN GssResult(X, PBS_GSS_ERR_UNWRAP, NullBuf)
    ELSE IF gss_unwrap(data_in.bytes) = <<>>
    THEN GssResult(X, PBS_GSS_ERR_UNWRAP, NullBuf)
    ELSE IF env = "nomem"
    THEN GssResult(X, PBS_GSS_ERR_INTERNAL, NullBuf)
    ELSE GssResult(X, PBS_GSS_OK, Buf(gss_unwrap(data_in.bytes)))

\* an unwrap that hands the cached cleartext out and keeps it
pbs_gss_unwrap_keep(X, data_in, env) ==
    IF ~X.ready \/ ~X.confidential
    THEN GssResult(X, PBS_GSS_ERR_INTERNAL, NullBuf)
    ELSE IF data_in.null
    THEN [unwrap_cached(X, env) EXCEPT !.extra = X]
    ELSE unwrap_token(X, data_in, env)

\* pbs_gss_unwrap(extra, data_in, len_in, ...): data_in is NULL with len_in 0,
\* or holds len_in > 0 bytes
pbs_gss_unwrap(X, data_in, env) ==
    IF ~X.ready \/ ~X.confidential
    THEN GssResult(X, PBS_GSS_ERR_INTERNAL, NullBuf)
    ELSE IF data_in.null
    THEN unwrap_cached(X, env)
    ELSE unwrap_token(X, data_in, env)

\* pbs_gss_alloc_gss_extra, and the context after pbs_gss_establish_context
\* with or without confidentiality
GssContexts ==
    [ready : BOOLEAN, confidential : BOOLEAN, cleartext : {NullBuf},
     ncall : {0}]

InitGss ==
    /\ mem \in {X \in GssContexts : X.confidential => X.ready}
    /\ out = NoOut
    /\ Idle

\* the record of a call: the routine, its input, what happened inside, its
\* return code and *data_out
GssCall(fn, data_in, env, res) ==
    [fn |-> fn, data_in |-> data_in, env |-> env, rc |-> res.rc,
     data |-> res.data]

Wrap ==
    /\ UNCHANGED <<sigvars, authvars>>
    /\ mem.ncall < MaxGssCalls
    /\ \E bytes \in Plaintexts, env \in WrapEnvs :
          LET res == pbs_gss_wrap(mem, bytes, env)
          IN  /\ mem' = [res.extra EXCEPT !.ncall = @ + 1]
              /\ out' = GssCall("pbs_gss_wrap", Buf(bytes), env, res)

Unwrap ==
    /\ UNCHANGED <<sigvars, authvars>>
    /\ mem.ncall < MaxGssCalls
    /\ \E data_in \in {NullBuf} \cup
                       {Buf(gss_wrap(b)) : b \in Plaintexts} \cup
                       {Buf(b) : b \in Plaintexts \ {<<>>}},
          env \in UnwrapEnvs :
          LET res == pbs_gss_unwrap(mem, data_in, env)
          IN  /\ mem' = [res.extra EXCEPT !.ncall = @ + 1]
              /\ out' = GssCall("pbs_gss_unwrap", data_in, env, res)

NextGss == Wrap \/ Unwrap

-----------------------------------------------------------------------------
(* attributes of type string (attr_fn_str.c) *)

PBSE_SYSTEM == "PBSE_SYSTEM"
PBSE_INTERNAL == "PBSE_INTERNAL"

\* a C string of the characters 1 and 2; 0 is the terminating NUL
Chars == {1, 2}
Strings(n) == UNION {[1..k -> Chars] : k \in 0..n}
NUL == 0

\* an attribute: ATR_VFLAG_SET of at_flags, and at_val.at_str
Attribute(set, str) == [vflag_set |-> set, at_str |-> str]
UnsetAttribute == Attribute(FALSE, NullBuf)

\* the result of a call: the attribute it leaves and its return value
AttrResult(attr, rc) == [attr |-> attr, rc |-> rc]

\* decode_str(patr, name, rescn, val) that keeps the old value when val is
\* empty
decode_str_keep(patr, val, env) ==
    IF ~val.null /\ Len(val.bytes) + 1 > 1
    THEN IF env = "nomem"
         THEN AttrResult([patr EXCEPT !.at_str = NullBuf], PBSE_SYSTEM)
         ELSE AttrResult(Attribute(TRUE, Buf(val.bytes)), PBSE_NONE)
    ELSE AttrResult(patr, PBSE_NONE)

\* decode_str(patr, name, rescn, val)
decode_str(patr, val, env) ==
    IF ~val.null /\ Len(val.bytes) + 1 > 1
    THEN IF env = "nomem"
         THEN AttrResult([patr EXCEPT !.at_str = NullBuf], PBSE_SYSTEM)
         ELSE AttrResult(Attribute(TRUE, Buf(val.bytes)), PBSE_NONE)
    ELSE AttrResult(UnsetAttribute, PBSE_NONE)

\* encode_str(attr, phead, atname, rsname, mode, rtnl) with phead given: the
\* list it leaves and its return value, written as a string
encode_str(attr, phead, atname, env) ==
    IF ~attr.vflag_set \/ attr.at_str.null \/ attr.at_str.bytes = <<>>
    THEN [phead |-> phead, rc |-> "0"]
    ELSE IF env = "nomem"
    THEN [phead |-> phead, rc |-> "-1"]
    ELSE [phead |-> Append(phead, [al_name |-> atname,
                                   al_value |-> attr.at_str.bytes,
                                   al_flags_set |-> attr.vflag_set]),
          rc |-> "1"]

\* the memory of a C string, and the C string found in memory
Memory(bytes) == bytes \o <<NUL>>
RECURSIVE CString(_)
CString(memory) ==
    IF Head(memory) = NUL THEN <<>>
    ELSE <<Head(memory)>> \o CString(Tail(memory))

\* strncmp(p, s, n) == 0 for a string s of n characters; memory[p + 1] is *p
RECURSIVE strncmp_equal(_, _, _, _)
strncmp_equal(memory, p, s, i) ==
    \/ i = Len(s)
    \/ /\ memory[p + i + 1] = s[i + 1]
       /\ strncmp_equal(memory, p, s, i + 1)

\* do { *p = *(p + nsize); } while (*p++);
RECURSIVE shift_left(_, _, _)
shift_left(memory, p, nsize) ==
    LET moved == [memory EXCEPT ![p + 1] = memory[p + nsize + 1]]
    IN  IF moved[p + 1] # NUL
        THEN shift_left(moved, p + 1, nsize)
        ELSE [memory |-> moved, p |-> p + 1]

\* the DECR loop of set_str: while (p >= attr->at_val.at_str) { ... p--; }
RECURSIVE decr_loop(_, _, _)
decr_loop(memory, p, s) ==
    IF p < 0 THEN memory
    ELSE IF strncmp_equal(memory, p, s, 0)
    THEN LET moved == shift_left(memory, p, Len(s))
         IN  decr_loop(moved.memory, moved.p - 1, s)
    ELSE decr_loop(memory, p - 1, s)

\* the end of set_str: the attribute is set if it holds a non-empty string
mark_set(str) ==
    Attribute(~str.null /\ str.bytes # <<>>, str)

\* set_str(attr, new, op) with new set to the string s
set_str(attr, s, op, env) ==
    LET old == attr.at_str
        op1 == IF op = "INCR" /\ old.null THEN "SET" ELSE op
    IN  CASE op1 = "SET" ->
               IF env = "nomem"
               THEN AttrResult([attr EXCEPT !.at_str = NullBuf], PBSE_SYSTEM)
               ELSE AttrResult(mark_set(Buf(s)), PBSE_NONE)
          [] op1 = "INCR" ->
               IF env = "nomem"
               THEN AttrResult(attr, PBSE_SYSTEM)
               ELSE AttrResult(mark_set(Buf(old.bytes \o s)), PBSE_NONE)
          [] op1 = "DECR" ->
               IF old.null \/ Len(s) = 0
               THEN AttrResult(mark_set(old), PBSE_NONE)
               ELSE AttrResult(
                        mark_set(Buf(CString(
                            decr_loop(Memory(old.bytes),
                                      Len(old.bytes) - Len(s), s)))),
                        PBSE_NONE)
          [] OTHER -> AttrResult(attr, PBSE_INTERNAL)

\* free_str(attr): the string is released, free_null clears the flags and
\* the pointer is set to NULL
free_str(attr) == UnsetAttribute

AttrOps == {"SET", "INCR", "DECR", "UNSET"}
AttrEnvs == {"ok", "nomem"}
AttrNames == {"Account_Name", "comment"}

\* the routine called before this one on the attribute
PrevCall == IF out = NoOut THEN "none" ELSE out.fn

InitAttr ==
    /\ mem = [attr |-> UnsetAttribute, phead |-> <<>>, ncall |-> 0]
    /\ out = NoOut
    /\ Idle

DecodeStr ==
    /\ UNCHANGED <<sigvars, authvars>>
    /\ mem.ncall < MaxAttrCalls
    /\ \E val \in {NullBuf} \cup {Buf(s) : s \in Strings(MaxVal)},
          env \in AttrEnvs :
          LET res == decode_str(mem.attr, val, env)
          IN  /\ mem' = [mem EXCEPT !.attr = res.attr, !.ncall = @ + 1]
              /\ out' = [fn |-> "decode_str", after |-> PrevCall,
                         val |-> val, env |-> env, rc |-> res.rc]

EncodeStr ==
    /\ UNCHANGED <<sigvars, authvars>>
    /\ mem.ncall < MaxAttrCalls
    /\ \E atname \in AttrNames, env \in AttrEnvs :
          LET res == encode_str(mem.attr, mem.phead, atname, env)
          IN  /\ mem' = [mem EXCEPT !.phead = res.phead, !.ncall = @ + 1]
              /\ out' = [fn |-> "encode_str", after |-> PrevCall,
                         atname |-> atname, env |-> env, rc |-> res.rc]

SetStr ==
    /\ UNCHANGED <<sigvars, authvars>>
    /\ mem.ncall < MaxAttrCalls
    /\ \E s \in Strings(MaxVal), op \in AttrOps, env \in AttrEnvs :
          /\ op = "INCR" /\ ~mem.attr.at_str.null
                => Len(mem.attr.at_str.bytes) + Len(s) <= MaxStr
          /\ LET res == set_str(mem.attr, s, op, env)
             IN  /\ mem' = [mem EXCEPT !.attr = res.attr, !.ncall = @ + 1]
                 /\ out' = [fn |-> "set_str", after |-> PrevCall,
                            new |-> s, op |-> op, env |-> env,
                            rc |-> res.rc]

FreeStr ==
    /\ UNCHANGED <<sigvars, authvars>>
    /\ mem.ncall < MaxAttrCalls
    /\ mem' = [mem EXCEPT !.attr = free_str(mem.attr), !.ncall = @ + 1]
    /\ out' = [fn |-> "free_str", after |-> PrevCall, rc |-> "void"]

NextAttr == DecodeStr \/ EncodeStr \/ SetStr \/ FreeStr

-----------------------------------------------------------------------------
(* create_resreleased (req_signal.c) *)

\* the pieces a resources-released string is made of: "(", ")", "+", a node
\* name, and a clause ":key=val"
Piece(t, a, b) == [t |-> t, a |-> a, b |-> b]
Open == Piece("(", "", "")
Close == Piece(")", "", "")
Plus == Piece("+", "", "")
NodeName(noden) == Piece("node", noden, "")
Clause(key, val) == Piece(":=", key, val)
dflt_ncpus_rel == Clause("ncpus", "0")

\* the clauses of chunk resources pkvp[j..nelem-1] that are in the restricted
\* list: for each resource the first k with as_string[k] equal to its key
RECURSIVE first_match(_, _, _)
first_match(keyw, as_string, k) ==
    IF k > Len(as_string) THEN 0
    ELSE IF as_string[k] # "NULL" /\ keyw = as_string[k] THEN k
    ELSE first_match(keyw, as_string, k + 1)

RECURSIVE release_clauses(_, _, _)
release_clauses(pkvp, as_string, j) ==
    IF j > Len(pkvp) THEN <<>>
    ELSE LET k == first_match(pkvp[j].kv_keyw, as_string, 1)
         IN  (IF k = 0 THEN <<>>
              ELSE <<Clause(as_string[k], pkvp[j].kv_val)>>)
             \o release_clauses(pkvp, as_string, j + 1)

\* the while (chunk) loop with no_res_rel set to 1 before the loop only
RECURSIVE chunk_loop_sticky(_, _, _, _)
chunk_loop_sticky(chunks, as_string, i, no_res_rel) ==
    IF i > Len(chunks) THEN <<>>
    ELSE LET clauses == release_clauses(chunks[i].pkvp, as_string, 1)
             none == no_res_rel /\ clauses = <<>>
         IN  <<Open, NodeName(chunks[i].noden)>> \o clauses
             \o (IF none THEN <<dflt_ncpus_rel>> ELSE <<>>)
             \o <<Close>>
             \o (IF i < Len(chunks) THEN <<Plus>> ELSE <<>>)
             \o chunk_loop_sticky(chunks, as_string, i + 1, none)

\* the while (chunk) loop: no_res_rel is set to 1 for every chunk
RECURSIVE chunk_loop(_, _, _, _)
chunk_loop(chunks, as_string, i, no_res_rel) ==
    IF i > Len(chunks) THEN <<>>
    ELSE LET clauses == release_clauses(chunks[i].pkvp, as_string, 1)
             none == clauses = <<>>
         IN  <<Open, NodeName(chunks[i].noden)>> \o clauses
             \o (IF none THEN <<dflt_ncpus_rel>> ELSE <<>>)
             \o <<Close>>
             \o (IF i < Len(chunks) THEN <<Plus>> ELSE <<>>)
             \o chunk_loop(chunks, as_string, i + 1, none)

\* JOB_ATR_resc_released not set
NoRelease == <<>>

\* create_resreleased(pjob): its return value and JOB_ATR_resc_released;
\* restrict is SVR_ATR_restrict_res_to_release_on_suspend
create_resreleased(pexech, restrict, env) ==
    IF env = "nomem" \/ env = "badspec"
    THEN [rc |-> 1, resc_released |-> NoRelease]
    ELSE IF ~restrict.vflag_set
    THEN [rc |-> 1, resc_released |-> NoRelease]
    ELSE [rc |-> 0,
          resc_released |->
              chunk_loop(pexech, restrict.as_string, 1, TRUE)]

\* exec_vnode of a job: chunks of a node name and its resources
VnodeNames == {"n1", "n2"}
ChunkResources ==
    {[kv_keyw |-> "ncpus", kv_val |-> "2"],
     [kv_keyw |-> "mem", kv_val |-> "1gb"]}
Chunks ==
    [noden : VnodeNames,
     pkvp : UNION {[1..n -> ChunkResources] : n \in 0..MaxResc}]
ExecVnodes == UNION {[1..n -> Chunks] : n \in 1..MaxChunks}

\* strlen of a string written as pieces
RECURSIVE strlen(_)
strlen(pieces) ==
    IF pieces = <<>> THEN 0
    ELSE LET p == Head(pieces)
         IN  (CASE p.t = "node" -> Len(p.a)
                [] p.t = ":=" -> 1 + Len(p.a) + 1 + Len(p.b)
                [] OTHER -> 1)
             + strlen(Tail(pieces))

\* the text of an exec_vnode that parse_plus_spec and parse_node_resc split
\* into these chunks: every chunk in parentheses of its own, or all of them
\* in one superchunk
RECURSIVE exec_vnode_text(_, _, _)
exec_vnode_text(chunks, superchunk, i) ==
    IF i > Len(chunks) THEN <<>>
    ELSE (IF ~superchunk \/ i = 1 THEN <<Open>> ELSE <<>>)
         \o <<NodeName(chunks[i].noden)>>
         \o [j \in 1..Len(chunks[i].pkvp) |->
                Clause(chunks[i].pkvp[j].kv_keyw, chunks[i].pkvp[j].kv_val)]
         \o (IF ~superchunk \/ i = Len(chunks) THEN <<Close>> ELSE <<>>)
         \o (IF i < Len(chunks) THEN <<Plus>> ELSE <<>>)
         \o exec_vnode_text(chunks, superchunk, i + 1)

\* calloc(1, strlen(pexech->at_val.at_str)*2 + 1)
resreleased_size(text) == strlen(text) * 2 + 1

\* the server attribute restrict_res_to_release_on_suspend: unset, or an
\* array of strings
RestrictLists ==
    {[vflag_set |-> FALSE, as_string |-> <<>>]} \cup
    [vflag_set : {TRUE},
     as_string : UNION {[1..n -> {"ncpus", "mem", "NULL"}] :
                            n \in 0..MaxRestrict}]

InitRelease ==
    /\ mem \in [exec_vnode : ExecVnodes, restrict : RestrictLists]
    /\ out = NoOut
    /\ Idle

CreateResreleased ==
    /\ UNCHANGED <<sigvars, authvars, mem>>
    /\ out = NoOut
    /\ \E env \in {"ok", "nomem", "badspec"} :
          out' = create_resreleased(mem.exec_vnode, mem.restrict, env)

-----------------------------------------------------------------------------
(* set_admin_suspend called for jobs that share vnodes *)

\* a plain job and the subjobs of a begun array, all running, no request
InitMaint ==
    /\ quota = 0
    /\ ajstate = JOB_STATE_LTR_BEGUN
    /\ jobs = [j \in JobIds |-> RunningJob]
    /\ InitRest
    /\ conn = [c \in Conns |-> ClosedConn]
    /\ chan = [c \in Conns |-> NoChan]
    /\ done = [c \in Conns |-> {}]
    /\ last = NoRequestRead
    /\ mem = [ncall |-> 0]
    /\ out = NoOut

SetAdminSuspend ==
    /\ UNCHANGED <<conn, chan, done, last>>
    /\ mem.ncall < MaxMaintOps
    /\ mem' = [ncall |-> mem.ncall + 1]
    /\ \E j \in JobIds, set_remove_nstate \in BOOLEAN :
          /\ Install(set_admin_suspend(State, j, set_remove_nstate))
          /\ quota' = quota
          /\ out' = [fn |-> "set_admin_suspend", pjob |-> j,
                     set_remove_nstate |-> set_remove_nstate]

-----------------------------------------------------------------------------
(* _handle_client_handshake against engage_server_auth *)

\* what one call of process_handshake_data gives: whether *len_out > 0 and
\* whether it asks for more, sets *is_handshake_done or returns non-zero
CallOutcomes == [tok : BOOLEAN, res : {"more", "done", "fail"}]

\* a provider: the outcomes of its calls, up to the one that finishes
Scripts ==
    UNION {{s \in [1..k -> CallOutcomes] :
               /\ \A i \in 1..(k - 1) : s[i].res = "more"
               /\ s[k].res # "more"} : k \in 1..MaxRounds}

\* the client before its loop: no call made, nothing received
NoClient ==
    [pc |-> "call", calls |-> 0, done |-> FALSE,
     status |-> AUTH_STATUS_UNKNOWN, rc |-> "pending", errno |-> "",
     ebuf |-> ""]

client_fail(K, errno, ebuf) ==
    [K EXCEPT !.pc = "returned", !.rc = "-1", !.errno = errno, !.ebuf = ebuf]

\* the head of the loop: the provider is called with the last token
client_call(K, o) ==
    IF o.res = "fail"
    THEN client_fail(K, PBSE_SYSTEM, "auth_process_handshake_data failure")
    ELSE [K EXCEPT !.pc = "recv", !.calls = @ + 1, !.done = (o.res = "done")]

\* what the head of the loop sends
client_sent(o) ==
    IF o.res # "fail" /\ o.tok THEN <<AUTH_CTX_DATA>> ELSE <<>>

\* a client that looks at the expected packet type before AUTH_ERR_DATA
client_recv_typefirst(K, type) ==
    IF (~K.done /\ type # AUTH_CTX_DATA) \/ (K.done /\ type # AUTH_CTX_OK)
    THEN client_fail(K, PBSE_SYSTEM, "incorrect auth token type")
    ELSE IF type = AUTH_ERR_DATA
    THEN client_fail(K, "PBSE_BADCRED", "peer")
    ELSE IF K.done
    THEN [K EXCEPT !.pc = "returned", !.rc = "0",
                   !.status = AUTH_STATUS_CTX_READY]
    ELSE [K EXCEPT !.pc = "call"]

\* the rest of the loop body, once transport_recv_pkt has a packet
client_recv(K, type) ==
    IF type = AUTH_ERR_DATA
    THEN client_fail(K, "PBSE_BADCRED", "peer")
    ELSE IF (~K.done /\ type # AUTH_CTX_DATA) \/ (K.done /\ type # AUTH_CTX_OK)
    THEN client_fail(K, PBSE_SYSTEM, "incorrect auth token type")
    ELSE IF K.done
    THEN [K EXCEPT !.pc = "returned", !.rc = "0",
                   !.status = AUTH_STATUS_CTX_READY]
    ELSE [K EXCEPT !.pc = "call"]

\* a server that acknowledges nothing when its provider is done
server_reply_silent(A, c, for_encrypt, hs, tok) ==
    IF A.chan[c][for_encrypt].status # AUTH_STATUS_CTX_ESTABLISHING
    THEN [rc |-> "1", pkts |-> <<>>]
    ELSE IF \/ A.chan[c][for_encrypt].def = NoDef
            \/ A.chan[c][for_encrypt].ctx = NoCtx /\ ~hs.ctxok
            \/ hs.pkt # AUTH_CTX_DATA
    THEN [rc |-> "-1", pkts |-> <<>>]
    ELSE IF hs.provider = "fail"
    THEN [rc |-> "-1", pkts |-> <<AUTH_ERR_DATA>>]
    ELSE IF ~hs.sendok
    THEN [rc |-> "-1", pkts |-> <<>>]
    ELSE [rc |-> "0",
          pkts |-> IF tok THEN <<AUTH_CTX_DATA>> ELSE <<>>]

\* engage_server_auth: its return value and the packets it sends
server_reply(A, c, for_encrypt, hs, tok) ==
    IF A.chan[c][for_encrypt].status # AUTH_STATUS_CTX_ESTABLISHING
    THEN [rc |-> "1", pkts |-> <<>>]
    ELSE IF \/ A.chan[c][for_encrypt].def = NoDef
            \/ A.chan[c][for_encrypt].ctx = NoCtx /\ ~hs.ctxok
            \/ hs.pkt # AUTH_CTX_DATA
    THEN [rc |-> "-1", pkts |-> <<>>]
    ELSE IF hs.provider = "fail"
    THEN [rc |-> "-1", pkts |-> <<AUTH_ERR_DATA>>]
    ELSE IF ~hs.sendok
    THEN [rc |-> "-1", pkts |-> <<>>]
    ELSE [rc |-> "0",
          pkts |-> (IF tok THEN <<AUTH_CTX_DATA>> ELSE <<>>)
                       \o (IF hs.provider = "done"
                           THEN <<AUTH_CTX_OK>> ELSE <<>>)]

\* the server has accepted an Authenticate request on a fresh connection;
\* the client starts the handshake of a direction that is establishing
InitHandshake ==
    /\ NoJobs
    /\ out = NoOut
    /\ \E c \in Conns, rq \in AuthenticateRequests, d \in Dirs :
          LET A0 == [conn |-> [x \in Conns |->
                                 IF x = c
                                 THEN [ClosedConn EXCEPT
                                         !.open = TRUE,
                                         !.authen = {PBS_NET_CONN_FROM_PRIVIL}]
                                 ELSE ClosedConn],
                     chan |-> [x \in Conns |-> NoChan],
                     done |-> [x \in Conns |-> {}],
                     last |-> NoRequestRead]
              A == req_authenticate(A0, c, rq)
          IN  /\ A.last.reply = PBSE_NONE
              /\ A.last.cp = c
              /\ A.chan[c][d].status = AUTH_STATUS_CTX_ESTABLISHING
              /\ conn = A.conn
              /\ chan = A.chan
              /\ done = A.done
              /\ last = A.last
              /\ mem \in [obj : {"handshake"}, fd : {c}, dir : {d},
                           cscript : Scripts, sscript : Scripts,
                           scalls : {0}, c2s : {<<>>}, s2c : {<<>>},
                           client : {NoClient}]

\* the client calls its provider and sends what it produced
ClientCall ==
    /\ UNCHANGED <<sigvars, authvars, out>>
    /\ mem.client.pc = "call"
    /\ LET o == mem.cscript[mem.client.calls + 1]
       IN  mem' = [mem EXCEPT !.client = client_call(@, o),
                              !.c2s = @ \o client_sent(o)]

\* transport_recv_pkt returns the next packet of the server
ClientRecv ==
    /\ UNCHANGED <<sigvars, authvars, out>>
    /\ mem.client.pc = "recv"
    /\ mem.s2c # <<>>
    /\ mem' = [mem EXCEPT !.client = client_recv(@, Head(mem.s2c)),
                          !.s2c = Tail(@)]

\* data is ready on the connection and the server has not given it up
ServerHandshake ==
    /\ UNCHANGED sigvars
    /\ mem.c2s # <<>>
    /\ out.rc # "-1"
    /\ LET c == mem.fd
           d == mem.dir
           establishing == chan[c][d].status = AUTH_STATUS_CTX_ESTABLISHING
           o == IF establishing
                THEN mem.sscript[mem.scalls + 1]
                ELSE [tok |-> FALSE, res |-> "more"]
           hs == [ctxok |-> TRUE, pkt |-> Head(mem.c2s),
                  provider |-> o.res, sendok |-> TRUE]
           r == server_reply(AuthState, c, d, hs, o.tok)
       IN  /\ InstallAuth(engage_server_auth(AuthState, c, d, hs))
           /\ out' = [rc |-> r.rc]
           /\ mem' = [mem EXCEPT
                        !.c2s = Tail(@),
                        !.s2c = @ \o r.pkts,
                        !.scalls = IF establishing THEN @ + 1 ELSE @]

NextHandshake == ClientCall \/ ClientRecv \/ ServerHandshake

-----------------------------------------------------------------------------
(* dispatch_request: the Status requests of a client on a TCP connection *)

StatusTypes ==
    {"StatusJob", "StatusQue", "StatusNode", "StatusResv", "StatusSvr",
     "StatusSched", "StatusRsc", "StatusHook"}

\* the cases of the switch that call set_to_non_blocking
NonBlockingTypes ==
    {"StatusJob", "StatusQue", "StatusNode", "StatusResv", "StatusHook"}

\* the function the case of a request type calls
handler_of(rq_type) ==
    CASE rq_type = "StatusJob" -> "req_stat_job"
      [] rq_type = "StatusQue" -> "req_stat_que"
      [] rq_type = "StatusNode" -> "req_stat_node"
      [] rq_type = "StatusResv" -> "req_stat_resv"
      [] rq_type = "StatusSvr" -> "req_stat_svr"
      [] rq_type = "StatusSched" -> "req_stat_sched"
      [] rq_type = "StatusRsc" -> "req_stat_resc"
      [] rq_type = "StatusHook" -> "req_stat_hook"
      [] rq_type = PBS_BATCH_SignalJob -> "req_signaljob"
      [] OTHER -> "req_track"

\* what became of a dispatched request: the calls made in order, whether
\* O_NONBLOCK was set while the handler ran and is set at the return, the
\* reply the dispatcher itself wrote and whether the connection is closed
Dispatched(calls, during, after, reply, closed) ==
    [calls |-> calls, during |-> during, after |-> after, reply |-> reply,
     closed |-> closed]

\* the handler runs between set_to_non_blocking and clear_non_blocking; env
\* tells whether fcntl works and whether the connection is gone from the
\* table when the handler returns
non_blocking_case(rq_type, env) ==
    IF ~env.nbok
    THEN Dispatched(<<"set_to_non_blocking", "req_reject", "close_client">>,
                    FALSE, FALSE, PBSE_SYSTEM, TRUE)
    ELSE Dispatched(<<"set_to_non_blocking", handler_of(rq_type),
                      "clear_non_blocking">>,
                    TRUE, env.closes, "", env.closes)

\* a dispatcher that treats every Status request alike
dispatch_request_allstatus(rq_type, env) ==
    IF rq_type = "StatusHook" /\ ~env.localroot
    THEN Dispatched(<<"reply_text">>, FALSE, FALSE, "PBSE_HOOKERROR", FALSE)
    ELSE IF rq_type \in StatusTypes
    THEN non_blocking_case(rq_type, env)
    ELSE Dispatched(<<handler_of(rq_type)>>, FALSE, FALSE, "", env.closes)

\* dispatch_request for a connection found in the table, which is blocking
dispatch_request(rq_type, env) ==
    IF rq_type = "StatusHook" /\ ~env.localroot
    THEN Dispatched(<<"reply_text">>, FALSE, FALSE, "PBSE_HOOKERROR", FALSE)
    ELSE IF rq_type \in NonBlockingTypes
    THEN non_blocking_case(rq_type, env)
    ELSE Dispatched(<<handler_of(rq_type)>>, FALSE, FALSE, "", env.closes)

InitDispatch ==
    /\ Idle
    /\ out = NoOut
    /\ mem \in [rq_type : StatusTypes \cup {PBS_BATCH_SignalJob, "TrackJob"},
                 nbok : BOOLEAN, localroot : BOOLEAN, closes : BOOLEAN]

DispatchRequest ==
    /\ UNCHANGED <<sigvars, authvars, mem>>
    /\ out = NoOut
    /\ out' = dispatch_request(mem.rq_type, mem)

-----------------------------------------------------------------------------
(* close_client: the outstanding requests of a closed connection *)

\* rq_conn and rq_orgconn of a request that is not connected
NoSock == -1
Socks == 1..MaxSock

\* the list svr_requests: each request with its rq_conn and rq_orgconn
RequestLists ==
    UNION {[1..k -> [rq_conn : Socks \cup {NoSock},
                     rq_orgconn : Socks \cup {NoSock}]] :
              k \in 0..MaxOutstanding}

\* a close_client that takes the requests of the connection off the list
close_client_unlink(svr_requests, sfds) ==
    SelectSeq(svr_requests,
              LAMBDA preq : preq.rq_conn # sfds /\ preq.rq_orgconn # sfds)

\* the walk of close_client over svr_requests
close_client_walk(svr_requests, sfds) ==
    [i \in DOMAIN svr_requests |->
        [rq_conn |-> IF svr_requests[i].rq_conn = sfds
                     THEN NoSock ELSE svr_requests[i].rq_conn,
         rq_orgconn |-> IF svr_requests[i].rq_orgconn = sfds
                        THEN NoSock ELSE svr_requests[i].rq_orgconn]]

InitClose ==
    /\ Idle
    /\ out = NoOut
    /\ mem \in [svr_requests : RequestLists]

CloseClient ==
    /\ UNCHANGED <<sigvars, authvars>>
    /\ out = NoOut
    /\ \E sfds \in Socks :
          /\ mem' = [svr_requests |-> close_client_walk(mem.svr_requests, sfds)]
          /\ out' = [rc |-> "void", sfds |-> sfds]

-----------------------------------------------------------------------------
(* set_shell (mom_start.c) *)

\* the name of this execution host, written with the characters 1 and 2
mom_host == <<1, 2>>

\* an entry of JOB_ATR_shell: "path" (at FALSE) or "path@host"
ShellEntries ==
    [at : {FALSE}, host : {<<>>}] \cup
    [at : {TRUE}, host : Strings(MaxHostLen)]

ShellLists == UNION {[1..n -> ShellEntries] : n \in 0..MaxShells}

\* the shell that stands for pwdp->pw_shell; entry i of the list is shell i
LoginShell == 0

\* !strncmp(mom_host, cp+1, strlen(cp+1))
host_matches(entry) == strncmp_equal(Memory(mom_host), 0, entry.host, 0)

\* the for loop of set_shell from entry i on, shell being the choice so far
RECURSIVE shell_loop(_, _, _)
shell_loop(vstrs, i, shell) ==
    IF i > Len(vstrs) THEN shell
    ELSE IF vstrs[i].at
    THEN IF host_matches(vstrs[i]) THEN i
         ELSE shell_loop(vstrs, i + 1, shell)
    ELSE shell_loop(vstrs, i + 1, i)

\* set_shell(pjob, pwdp)
set_shell(is_set, vstrs) ==
    IF is_set THEN shell_loop(vstrs, 1, LoginShell) ELSE LoginShell

InitShell ==
    /\ Idle
    /\ out = NoOut
    /\ mem \in [is_set : BOOLEAN, vstrs : ShellLists]

SetShell ==
    /\ UNCHANGED <<sigvars, authvars, mem>>
    /\ out = NoOut
    /\ out' = [rc |-> "shell", shell |-> set_shell(mem.is_set, mem.vstrs)]

-----------------------------------------------------------------------------
(* scan_for_terminated (mom_start.c) *)

\* process ids: "0" is no process
NoPid == "0"
Pids == {"p1", "p2", "p3", "p4", "p5"}

TI_STATE_RUNNING == "TI_STATE_RUNNING"
TI_STATE_EXITED == "TI_STATE_EXITED"

\* a task of a job: ti_qs.ti_sid, ti_qs.ti_status, TI_FLAGS_ORPHAN of
\* ti_flags, ti_qs.ti_exitstat, whether task_save wrote it and whether
\* kill_session was sent to its session
MomTask(sid) ==
    [ti_sid |-> sid, ti_status |-> TI_STATE_RUNNING, orphan |-> FALSE,
     ti_exitstat |-> 0, saved |-> FALSE, killed |-> FALSE]

\* a job of svr_alljobs: ji_momsubt, whether ji_mompost is set, the exit
\* values ji_mompost was called with, whether job_save wrote it,
\* JOB_SVFLG_TERMJOB, and ji_tasks
MomJob(momsubt, mompost, termjob, sids) ==
    [ji_momsubt |-> momsubt, ji_mompost |-> mompost, posted |-> <<>>,
     saved |-> FALSE, termjob |-> termjob,
     ji_tasks |-> [k \in 1..Len(sids) |-> MomTask(sids[k])]]

\* the status waitpid stores, and the exit value computed from it
Statlocs ==
    {[kind |-> "exited", val |-> 0], [kind |-> "signaled", val |-> 9],
     [kind |-> "stopped", val |-> 0]}

exiteval(statloc) ==
    IF statloc.kind = "exited" THEN statloc.val
    ELSE IF statloc.kind = "signaled" THEN statloc.val + 256
    ELSE 1

\* a child returned by waitpid, with the number of live processes bld_ptree
\* finds in its session
Reaped == [pid : Pids, statloc : Statlocs, live : {0, 2}]

\* the loop over task_list_event: a deferred-child work task of this pid
\* becomes WORK_Deferred_Cmp
mark_work_tasks(S, r) ==
    LET hit == {w \in DOMAIN S.wtasks :
                   /\ S.wtasks[w].wt_type = "WORK_Deferred_Child"
                   /\ S.wtasks[w].wt_event = r.pid}
    IN  [S EXCEPT !.wtasks = [w \in DOMAIN S.wtasks |->
                                 IF w \in hit
                                 THEN [S.wtasks[w] EXCEPT
                                          !.wt_type = "WORK_Deferred_Cmp",
                                          !.wt_aux = exiteval(r.statloc)]
                                 ELSE S.wtasks[w]],
                  !.svr_delay_entry = @ + Cardinality(hit)]

\* the loop over ji_tasks: the first task whose session id is pid, or 0
RECURSIVE find_task(_, _, _)
find_task(tasks, pid, k) ==
    IF k > Len(tasks) THEN 0
    ELSE IF tasks[k].ti_sid = pid THEN k
    ELSE find_task(tasks, pid, k + 1)

\* the loop over svr_alljobs: the job and task the loop stops at; j is 0 for
\* pjob == NULL, k is 0 when the loop stopped at pid == ji_momsubt
RECURSIVE find_job(_, _, _)
find_job(alljobs, pid, j) ==
    IF j > Len(alljobs) THEN [j |-> 0, k |-> 0]
    ELSE IF pid = alljobs[j].ji_momsubt THEN [j |-> j, k |-> 0]
    ELSE LET k == find_task(alljobs[j].ji_tasks, pid, 1)
         IN  IF k # 0 THEN [j |-> j, k |-> k]
             ELSE find_job(alljobs, pid, j + 1)

\* pid == pjob->ji_momsubt
helper_terminated(S, j, r) ==
    [S EXCEPT !.jobs[j].ji_momsubt = NoPid,
              !.jobs[j].posted = IF S.jobs[j].ji_mompost
                                 THEN Append(@, exiteval(r.statloc)) ELSE @,
              !.jobs[j].saved = TRUE]

\* the task branch without the continue of the orphan case
task_terminated_fallthrough(S, j, k, r) ==
    LET S1 == [S EXCEPT !.jobs[j].ji_tasks[k].ti_exitstat =
                            exiteval(r.statloc)]
        S2 == IF S1.jobs[j].termjob /\ r.live > 0
              THEN [S1 EXCEPT !.jobs[j].ji_tasks[k].orphan = TRUE]
              ELSE S1
    IN  [S2 EXCEPT !.jobs[j].ji_tasks[k].killed = TRUE,
                   !.jobs[j].ji_tasks[k].ti_status = TI_STATE_EXITED,
                   !.jobs[j].ji_tasks[k].saved = TRUE,
                   !.exiting_tasks = 1]

\* the task branch: ti_exitstat, then the orphan case, else kill_session,
\* TI_STATE_EXITED, task_save and exiting_tasks
task_terminated(S, j, k, r) ==
    LET S1 == [S EXCEPT !.jobs[j].ji_tasks[k].ti_exitstat =
                            exiteval(r.statloc)]
    IN  IF S1.jobs[j].termjob /\ r.live > 0
        THEN [S1 EXCEPT !.jobs[j].ji_tasks[k].orphan = TRUE]
        ELSE [S1 EXCEPT !.jobs[j].ji_tasks[k].killed = TRUE,
                        !.jobs[j].ji_tasks[k].ti_status = TI_STATE_EXITED,
                        !.jobs[j].ji_tasks[k].saved = TRUE,
                        !.exiting_tasks = 1]

\* the body of while ((pid = waitpid(-1, &statloc, WNOHANG)) > 0)
reap(S, r) ==
    LET S1 == mark_work_tasks(S, r)
        at == find_job(S1.jobs, r.pid, 1)
    IN  IF at.j = 0 THEN S1
        ELSE IF at.k = 0 THEN helper_terminated(S1, at.j, r)
        ELSE task_terminated(S1, at.j, at.k, r)

RECURSIVE reap_all(_, _, _)
reap_all(S, reaped, i) ==
    IF i > Len(reaped) THEN S
    ELSE reap_all(reap(S, reaped[i]), reaped, i + 1)

\* scan_for_terminated(): mom_set_use_all samples the usage of the jobs
scan_for_terminated(S, reaped) ==
    reap_all([S EXCEPT !.termin_child = 0, !.sampled = TRUE], reaped, 1)

\* a job with two tasks and a job with one task and perhaps a helper
\* subprocess, one deferred-child work task, and SIGCHLD caught; p5 is no
\* process of a job
InitScan ==
    /\ Idle
    /\ out = NoOut
    /\ \E m \in {NoPid, "p1"}, p \in BOOLEAN, f1 \in BOOLEAN, f2 \in BOOLEAN,
          e \in {"p1", "p5"} :
           mem = [jobs |-> <<MomJob(NoPid, FALSE, f1, <<"p2", "p3">>),
                             MomJob(m, p, f2, <<"p4">>)>>,
                  wtasks |-> <<[wt_type |-> "WORK_Deferred_Child",
                                wt_event |-> e, wt_aux |-> 0]>>,
                  svr_delay_entry |-> 0, exiting_tasks |-> 0,
                  termin_child |-> 1, sampled |-> FALSE]

\* one call: waitpid returns each child that terminated once
ScanForTerminated ==
    /\ UNCHANGED <<sigvars, authvars>>
    /\ out = NoOut
    /\ \E reaped \in UNION {[1..n -> Reaped] : n \in 1..MaxReaped} :
           /\ Cardinality({reaped[i].pid : i \in DOMAIN reaped}) = Len(reaped)
           /\ mem' = scan_for_terminated(mem, reaped)
           /\ out' = [rc |-> "void", reaped |-> reaped]

-----------------------------------------------------------------------------
(* get_versioned_libname: the OS version (mom_start.c) *)

release_info ==
    <<[file |-> "/etc/redhat-release", pfx |-> "RHEL", srch |-> "release",
       sep |-> " "],
      [file |-> "/etc/SuSE-release", pfx |-> "SLES", srch |-> "VERSION",
       sep |-> "="],
      [file |-> "/etc/os-release", pfx |-> "SLES", srch |-> "VERSION",
       sep |-> "="]>>

\* a release file: whether access(file, R_OK) succeeds, and its version line,
\* a keyword followed by a separator and a version number
ReleaseFiles ==
    [readable : BOOLEAN, kw : {"release", "VERSION"}, sep : {" ", "="},
     ver : {7, 12}]

NoOsver == [pfx |-> "NULL", ver |-> 0]

\* parse_sysfile_info(file, pfx, srch, sep) on a file that opens: the line
\* holding srch is split at sep, and the token after the one holding srch
\* gives the number
parse_sysfile_info(f, pfx, srch, sep) ==
    IF f.kw # srch THEN NoOsver
    ELSE IF f.sep # sep THEN NoOsver
    ELSE [pfx |-> pfx, ver |-> f.ver]

\* for (idx = ...; idx < table_size; idx++) if (access(...) != -1) break;
\* entry idx of the C table is release_info[idx + 1]
RECURSIVE first_readable(_, _)
first_readable(files, idx) ==
    IF idx >= Len(release_info) THEN idx
    ELSE IF files[idx + 1].readable THEN idx
    ELSE first_readable(files, idx + 1)

\* the part of get_versioned_libname that fills jobobj.osver
get_osver(files) ==
    LET idx == first_readable(files, 1)
    IN  IF idx < Len(release_info)
        THEN [idx |-> idx,
              osver |-> parse_sysfile_info(files[idx + 1],
                            release_info[idx + 1].pfx,
                            release_info[idx + 1].srch,
                            release_info[idx + 1].sep)]
        ELSE [idx |-> idx, osver |-> NoOsver]

InitRelinfo ==
    /\ Idle
    /\ out = NoOut
    /\ mem \in [files : [1..Len(release_info) -> ReleaseFiles]]

GetVersionedLibname ==
    /\ UNCHANGED <<sigvars, authvars, mem>>
    /\ out = NoOut
    /\ out' = get_osver(mem.files)

-----------------------------------------------------------------------------
(* __pbs_gss_establish_context, case PBS_GSS_SERVER: the lazily refreshed
   acceptor credentials *)

GSS_C_NO_CREDENTIAL == 0
DEFAULT_CREDENTIAL_LIFETIME == 7200
RetryDelay == 120

\* seconds between two calls
Elapsed == {0, 1, 119, 120, 121, 7200}

\* what the GSS library does in one call: pbs_gss_server_acquire_creds
\* succeeds or fails, gss_release_cred of the old credentials succeeds or
\* fails, and gss_inquire_cred fails, reports the lifetime GSS_C_INDEFINITE,
\* or reports a lifetime in seconds
RefreshEnvs ==
    [acquire : {"ok", "fail"}, release : {"ok", "err"},
     inquire : {"ok", "err", "GSS_C_INDEFINITE"}, lifetime : {0, 100}]

\* the statics of the function, the clock, and the times of the failed
\* refresh attempts so far
NoCreds ==
    [server_creds |-> GSS_C_NO_CREDENTIAL, lastcredstime |-> 0,
     credlifetime |-> 0, now |-> 1000, ncall |-> 0, failed |-> {}]

inquired_lifetime(env) ==
    IF env.inquire = "err" THEN 0
    ELSE IF env.inquire = "GSS_C_INDEFINITE" THEN DEFAULT_CREDENTIAL_LIFETIME
    ELSE env.lifetime

\* the refresh with the retry scheduled at the time of the failure
refresh_server_creds_noretry(S, now, env) ==
    IF ~(now - S.lastcredstime > S.credlifetime)
    THEN [S |-> S, attempted |-> FALSE, rc |-> PBS_GSS_OK]
    ELSE IF env.acquire = "fail"
    THEN [S |-> [S EXCEPT !.lastcredstime = now,
                          !.failed = @ \cup {now}],
          attempted |-> TRUE, rc |-> PBS_GSS_OK]
    ELSE IF S.server_creds # GSS_C_NO_CREDENTIAL /\ env.release = "err"
    THEN [S |-> [S EXCEPT !.lastcredstime = now], attempted |-> TRUE,
          rc |-> PBS_GSS_ERR_INTERNAL]
    ELSE [S |-> [S EXCEPT !.lastcredstime = now,
                          !.server_creds = S.ncall + 1,
                          !.credlifetime = inquired_lifetime(env)],
          attempted |-> TRUE, rc |-> PBS_GSS_OK]

\* if (now - lastcredstime > credlifetime) { ... }: the new credentials of
\* call n are named n
refresh_server_creds(S, now, env) ==
    IF ~(now - S.lastcredstime > S.credlifetime)
    THEN [S |-> S, attempted |-> FALSE, rc |-> PBS_GSS_OK]
    ELSE IF env.acquire = "fail"
    THEN [S |-> [S EXCEPT !.lastcredstime = now + RetryDelay,
                          !.failed = @ \cup {now}],
          attempted |-> TRUE, rc |-> PBS_GSS_OK]
    ELSE IF S.server_creds # GSS_C_NO_CREDENTIAL /\ env.release = "err"
    THEN [S |-> [S EXCEPT !.lastcredstime = now], attempted |-> TRUE,
          rc |-> PBS_GSS_ERR_INTERNAL]
    ELSE [S |-> [S EXCEPT !.lastcredstime = now,
                          !.server_creds = S.ncall + 1,
                          !.credlifetime = inquired_lifetime(env)],
          attempted |-> TRUE, rc |-> PBS_GSS_OK]

InitGssServer ==
    /\ Idle
    /\ out = NoOut
    /\ mem = NoCreds

\* one call in the server role on a context that is not yet established:
\* accept names the credentials handed to pbs_gss_server_establish_context
EstablishServer ==
    /\ UNCHANGED <<sigvars, authvars>>
    /\ mem.ncall < MaxEstablish
    /\ \E dt \in Elapsed, env \in RefreshEnvs :
          LET now == mem.now + dt
              res == refresh_server_creds(mem, now, env)
          IN  /\ mem' = [res.S EXCEPT !.now = now, !.ncall = @ + 1]
              /\ out' = [rc |-> res.rc, now |-> now, acquire |-> env.acquire,
                         attempted |-> res.attempted,
                         accept |-> IF res.rc = PBS_GSS_OK
                                    THEN {res.S.server_creds} ELSE {}]

-----------------------------------------------------------------------------
(* decode_DIS_replySvr_inner: a reply of choice BATCH_REPLY_CHOICE_Status *)

DIS_SUCCESS == "0"

\* what the stream holds for one status record: the return code of reading
\* its object type and name, and that of wire_decode_svrattrl on its
\* attribute list
StatusRecords ==
    [hdr : {DIS_SUCCESS, "DIS_EOD"},
     attrs : {DIS_SUCCESS, "DIS_EOD", "DIS_NOMALLOC"}]

StatusReplies == UNION {[1..k -> StatusRecords] : k \in 0..MaxRecords}

\* the while (ct--) loop: i is the record to read, rc the value rc has, n the
\* number of records appended to brp_status so far
RECURSIVE status_loop(_, _, _, _)
status_loop(records, i, rc, n) ==
    IF i > Len(records)
    THEN [rc |-> rc, appended |-> n]
    ELSE IF records[i].hdr # DIS_SUCCESS
    THEN [rc |-> records[i].hdr, appended |-> n]
    ELSE status_loop(records, i + 1, records[i].attrs, n + 1)

\* decode_DIS_replySvr_inner on a status reply whose code, auxcode, choice
\* and count decode
decode_DIS_replySvr_inner(records) == status_loop(records, 1, DIS_SUCCESS, 0)

InitReply ==
    /\ Idle
    /\ out = NoOut
    /\ mem \in [records : StatusReplies]

DecodeReply ==
    /\ UNCHANGED <<sigvars, authvars, mem>>
    /\ out = NoOut
    /\ out' = decode_DIS_replySvr_inner(mem.records)

\* the signal handlers working on one plain job
Spec == Init /\ [][Next]_vars

\* the signal handlers working on one job array
SpecArray == InitArrayJob /\ [][Next]_vars

\* the intake of requests on the server's client connections
SpecAuth == InitAuth /\ [][NextAuth]_vars

\* the signal handlers working on a plain job and a job array
SpecMixed == InitMixed /\ [][Next]_vars

\* the request decoder run on one buffer
SpecDecode == InitDecode /\ [][DecodeRequest]_vars

\* lookups in the registry of authentication methods
SpecRegistry == InitRegistry /\ [][NextRegistry]_vars

\* wrap and unwrap calls on one GSS context
SpecGss == InitGss /\ [][NextGss]_vars

\* decode, encode and set calls on one string attribute
SpecAttr == InitAttr /\ [][NextAttr]_vars

\* create_resreleased on one exec_vnode
SpecRelease == InitRelease /\ [][CreateResreleased]_vars

\* admin-suspend bookkeeping alone
SpecMaint == InitMaint /\ [][SetAdminSuspend]_vars

\* the signal handlers working on a job that starts suspended
SpecSuspended == InitSuspendedJob /\ [][Next]_vars

\* children reaped by the execution host
SpecScan == InitScan /\ [][ScanForTerminated]_vars

\* one OS detection
SpecRelinfo == InitRelinfo /\ [][GetVersionedLibname]_vars

\* one shell resolution
SpecShell == InitShell /\ [][SetShell]_vars

\* calls of the GSS server role over time
SpecGssServer == InitGssServer /\ [][EstablishServer]_vars

\* one status reply decoded
SpecReply == InitReply /\ [][DecodeReply]_vars

\* one close_client on a list of outstanding requests
SpecClose == InitClose /\ [][CloseClient]_vars

\* one request handed to dispatch_request
SpecDispatch == InitDispatch /\ [][DispatchRequest]_vars

\* one handshake of a client with the server
SpecHandshake == InitHandshake /\ [][NextHandshake]_vars

\* the same handshake when the client's loop keeps running and the server
\* serves every packet that arrives
SpecHandshakeFair ==
    /\ SpecHandshake
    /\ WF_vars(ClientCall)
    /\ WF_vars(ClientRecv)
    /\ WF_vars(ServerHandshake)

-----------------------------------------------------------------------------
(* Properties of the Signal-Job handlers *)

\* the requests received from a requester (not duplicates), by target
Received(kinds) ==
    {r \in BrIds : /\ reqs[r].st # "none"
                   /\ reqs[r].parentbr = NoBr
                   /\ reqs[r].target.kind \in kinds}

Dups(r) == {d \in BrIds : reqs[d].st # "none" /\ reqs[d].parentbr = r}

InFlight(r) == \E rl \in relays : rl.req = r

RECURSIVE SumCalls(_)
SumCalls(ds) ==
    IF ds = {} THEN 0
    ELSE LET d == CHOOSE x \in ds : TRUE
         IN  reqs[d].ncalls + SumCalls(ds \ {d})

\* the request that arrives in a step of RecvSignalJob
NewBr == NextBr(reclaim(State))
Arrives(r) == quota' = quota - 1 /\ r = NewBr

\* C1: the aggregate reply of a request for a whole array or for a range of
\* subjobs is sent exactly once, and only when every duplicate made for a
\* subjob has completed and is freed; it is sent as soon as none is left.
C1_AggregateReplyOnce ==
    \A r \in Received({"array", "range"}) :
        /\ Len(replies[r]) <= 1
        /\ Len(replies[r]) = 1 =>
              \A d \in Dups(r) : reqs[d].st = "freed" /\ ~InFlight(d)
        /\ (~dead /\ \A d \in Dups(r) : ~InFlight(d)) => Len(replies[r]) = 1

\* C2: a request for a plain job has no reply while the execution host has
\* not answered its relay, and exactly one reply otherwise.
C2_ExactlyOneReply ==
    \A r \in Received({"job"}) :
        Len(replies[r]) = IF InFlight(r) THEN 0 ELSE 1

\* C6: freeing a duplicate releases no payload: a duplicate only ever shares
\* the payload of its parent, and the payload of a request is released
\* exactly when that request itself is freed, never while it is live.
C6_SharedPayloadKept ==
    \A r \in BrIds :
        reqs[r].st # "none" =>
            IF reqs[r].parentbr # NoBr
            THEN /\ reqs[r].extend = "shared"
                 /\ reqs[reqs[r].parentbr].extend = "freed"
                       => reqs[reqs[r].parentbr].st = "freed"
            ELSE reqs[r].extend = "freed" <=> reqs[r].st = "freed"

\* a duplicate is freed while its parent, with references left, still holds
\* the payload
C6_Witness ==
    \E d \in BrIds :
        /\ reqs[d].st = "freed"
        /\ reqs[d].parentbr # NoBr
        /\ reqs[reqs[d].parentbr].st = "live"
        /\ reqs[reqs[d].parentbr].refct > 0
        /\ reqs[reqs[d].parentbr].extend = "held"

PlainArrayRequests ==
    {r \in Received({"array"}) :
        reqs[r].signame = "TERM" /\ ajstate = JOB_STATE_LTR_BEGUN}

\* C7 as stated: a plain signal for a begun array makes one relay_to_mom
\* call per subjob in the running state.
C7_OneRelayPerRunning ==
    \A r \in PlainArrayRequests :
        SumCalls(Dups(r)) =
            Cardinality({j \in SubJobs : jobs[j].state = JOB_STATE_LTR_RUNNING})

\* C7: a plain signal for a begun array makes one relay_to_mom call per
\* subjob in the running state that is not being provisioned.
C7_OneRelayPerSignalable ==
    \A r \in PlainArrayRequests :
        SumCalls(Dups(r)) =
            Cardinality({j \in SubJobs :
                            /\ jobs[j].state = JOB_STATE_LTR_RUNNING
                            /\ jobs[j].substate # JOB_SUBSTATE_PROVISION})

\* a plain signal was relayed for a running subjob of an array that also has
\* a subjob being provisioned
C7_Witness ==
    \E r \in PlainArrayRequests :
        /\ SumCalls(Dups(r)) >= 1
        /\ \E j \in SubJobs : jobs[j] = ProvisioningJob

\* the request that arrives is a resume of the wrong type for the plain job
WrongResume(r) ==
    /\ Arrives(r)
    /\ reqs'[r].target.kind = "job"
    /\ reqs'[r].oper
    /\ jobs[PlainJob].state = JOB_STATE_LTR_RUNNING
    /\ \/ /\ reqs'[r].signame = SIG_ADMIN_RESUME
          /\ jobs[PlainJob].Suspend
          /\ ~jobs[PlainJob].AdmSuspd
       \/ /\ reqs'[r].signame = SIG_RESUME
          /\ jobs[PlainJob].AdmSuspd

\* C8: a resume of the wrong type is answered PBSE_WRONG_RESUME and leaves
\* the jobs, their resources, the nodes and the scheduler flag as they were,
\* and relay_to_mom is not called.
C8_WrongResumeNoEffect ==
    [][\A r \in BrIds :
          WrongResume(r) =>
             /\ replies'[r] = <<"PBSE_WRONG_RESUME">>
             /\ reqs'[r].st = "freed"
             /\ reqs'[r].ncalls = 0
             /\ jobs' = jobs
             /\ nodes' = nodes
             /\ relays' = relays
             /\ sched' = sched]_vars

\* a plain resume of an admin-suspended job was rejected
C8_Witness ==
    \E r \in Received({"job"}) :
        /\ reqs[r].signame = SIG_RESUME
        /\ replies[r] = <<"PBSE_WRONG_RESUME">>
        /\ jobs[PlainJob].AdmSuspd
        /\ nodes["n1"].maint

\* the request that arrives is a plain resume by an operator or manager for
\* the suspended, not admin-suspended plain job
ClientResume(r) ==
    /\ Arrives(r)
    /\ reqs'[r].target.kind = "job"
    /\ reqs'[r].oper
    /\ reqs'[r].fromsvr = 0
    /\ reqs'[r].signame = SIG_RESUME
    /\ jobs[PlainJob].state = JOB_STATE_LTR_RUNNING
    /\ jobs[PlainJob].Suspend
    /\ ~jobs[PlainJob].AdmSuspd

\* C9 as stated: such a resume sets the substate to SCHSUSP, flags the
\* scheduler, is acknowledged in the same step, takes no resources back and
\* relay_to_mom is not called.
C9_ResumeFlagsScheduler ==
    [][\A r \in BrIds :
          ClientResume(r) =>
             /\ jobs' = [jobs EXCEPT
                           ![PlainJob].substate = JOB_SUBSTATE_SCHSUSP]
             /\ sched'
             /\ replies'[r] = <<PBSE_NONE>>
             /\ reqs'[r].st = "freed"
             /\ reqs'[r].ncalls = 0
             /\ relays' = relays
             /\ nodes' = nodes]_vars

\* C9: such a resume sets the substate to SCHSUSP, flags the scheduler
\* associated with the job when find_assoc_sched_jid finds it (when it finds
\* none the failure is logged and the flag is left as it was), is
\* acknowledged in the same step, takes no resources back and relay_to_mom
\* is not called.
C9_ResumeLeftToScheduler ==
    [][\A r \in BrIds :
          ClientResume(r) =>
             /\ jobs' = [jobs EXCEPT
                           ![PlainJob].substate = JOB_SUBSTATE_SCHSUSP]
             /\ sched' = IF reqs'[r].schederr THEN sched ELSE TRUE
             /\ replies'[r] = <<PBSE_NONE>>
             /\ reqs'[r].st = "freed"
             /\ reqs'[r].ncalls = 0
             /\ relays' = relays
             /\ nodes' = nodes]_vars

\* a resume by a client was acknowledged and left to the flagged scheduler
C9_Witness ==
    \E r \in Received({"job"}) :
        /\ reqs[r].signame = SIG_RESUME
        /\ reqs[r].fromsvr = 0
        /\ replies[r] = <<PBSE_NONE>>
        /\ jobs[PlainJob].substate = JOB_SUBSTATE_SCHSUSP
        /\ jobs[PlainJob].Suspend
        /\ jobs[PlainJob].assigned = 0
        /\ sched

\* the request that arrives is a resume of the right type, from a server or
\* an admin-resume, for the suspended plain job
ServerResume(r) ==
    /\ Arrives(r)
    /\ reqs'[r].target.kind = "job"
    /\ reqs'[r].oper
    /\ jobs[PlainJob].state = JOB_STATE_LTR_RUNNING
    /\ jobs[PlainJob].Suspend
    /\ \/ /\ reqs'[r].signame = SIG_ADMIN_RESUME
          /\ jobs[PlainJob].AdmSuspd
       \/ /\ reqs'[r].signame = SIG_RESUME
          /\ reqs'[r].fromsvr = 1
          /\ ~jobs[PlainJob].AdmSuspd

\* C10: when relay_to_mom is called for such a resume the job holds its
\* resources again; when it is not called, the reassignment failed, the
\* request is rejected with that error and nothing has changed (or the
\* server has stopped after reassigning).
C10_ReassignBeforeRelay ==
    [][\A r \in BrIds :
          ServerResume(r) =>
             IF reqs'[r].ncalls > 0
             THEN reqs'[r].atrelay = jobs[PlainJob].assigned + 1
             ELSE \/ /\ replies'[r] = <<AssignErr>>
                     /\ jobs' = jobs
                     /\ nodes' = nodes
                     /\ relays' = relays
                  \/ /\ dead'
                     /\ jobs'[PlainJob].assigned = jobs[PlainJob].assigned + 1
                     /\ relays' = relays]_vars

\* a resume from a server is relayed for a job that holds its resources again
C10_Witness ==
    \E r \in Received({"job"}) :
        /\ reqs[r].signame = SIG_RESUME
        /\ reqs[r].fromsvr = 1
        /\ InFlight(r)
        /\ reqs[r].atrelay = 1
        /\ jobs[PlainJob].assigned = 1
        /\ jobs[PlainJob].Suspend

\* the request that arrives names an existing job or array and one of the
\* four pseudo-signals, and its requester is neither operator nor manager
Unprivileged(r) ==
    /\ Arrives(r)
    /\ chk_job_request(State, reqs'[r].target) # NoJob
    /\ IsSuspend(reqs'[r].signame) \/ IsResume(reqs'[r].signame)
    /\ ~reqs'[r].oper

\* the reply codes sent for request r so far contain code
Replied(r, code) == \E i \in DOMAIN replies[r] : replies[r][i] = code

\* C18: a set_nodes failure during an authoritative resume is only logged:
\* no reply carrying its error is ever sent for the request.
C18_SetNodesOnlyLogged ==
    \A r \in BrIds : ~Replied(r, SetNodesErr)

\* in this step request r, a resume relayed for the plain job after the
\* reassignment, is rejected with the error of the execution host
MomRejectsResume(r) ==
    /\ \E rl \in relays : rl.req = r /\ rl \notin relays'
    /\ IsResume(reqs[r].signame)
    /\ reqs[r].rq_extra = PlainJob
    /\ Len(replies'[r]) = Len(replies[r]) + 1
    /\ replies'[r][Len(replies'[r])] # PBSE_NONE

\* in this step request r arrives as an authoritative resume of the plain
\* job and is rejected because relay_to_mom failed
RelayRejectsResume(r) ==
    /\ ServerResume(r)
    /\ replies'[r] # <<>>
    /\ replies'[r][Len(replies'[r])] = RelayErr

SecondPass(r) ==
    /\ Arrives(r)
    /\ reqs'[r].target.kind = "range"
    /\ chk_job_request(State, reqs'[r].target) # NoJob
    /\ ~Unprivileged(r)
    /\ \A n \in DOMAIN reqs'[r].target.range :
          ~Malformed(reqs'[r].target.range[n])
    /\ \E j \in TargetJobs(reqs'[r].target) :
          jobs[j].state = JOB_STATE_LTR_RUNNING

\* the duplicates of request r after this step
DupsAfter(r) ==
    {d \in BrIds : reqs'[d].st # "none" /\ reqs'[d].parentbr = r}

\* the subjobs the loop over the whole array makes a duplicate for
WholeArrayRule(sig) ==
    {j \in SubJobs :
        /\ jobs[j].state = JOB_STATE_LTR_RUNNING
        /\ ~(IsSuspend(sig) /\ jobs[j].Suspend)
        /\ ~(IsResume(sig) /\ ~jobs[j].Suspend)}

AdminSuspendDone(r) ==
    /\ \E rl \in relays : rl.req = r /\ rl \notin relays'
    /\ reqs[r].st = "live"
    /\ reqs[r].signame = SIG_ADMIN_SUSPEND
    /\ reqs[r].rq_extra = PlainJob
    /\ jobs[PlainJob].state = JOB_STATE_LTR_RUNNING
    /\ ~jobs[PlainJob].Suspend
    /\ replies'[r] = <<PBSE_NONE>>

\* C21: a successful admin-suspend of a running job not flagged suspended
\* releases the resources and nodes before the admin-suspend bookkeeping: the
\* job ends flagged suspended and admin-suspended, without the resources, and
\* each node of its exec_vnode is in maintenance state with the job in its
\* maintenance-jobs list.
C21_ReleaseBeforeMaintenance ==
    [][\A r \in BrIds :
          AdminSuspendDone(r) =>
             /\ jobs'[PlainJob].Suspend
             /\ jobs'[PlainJob].AdmSuspd
             /\ jobs'[PlainJob].assigned = jobs[PlainJob].assigned - 1
             /\ \A n \in exec_vnode(PlainJob) :
                   /\ nodes'[n].maint
                   /\ PlainJob \in nodes'[n].maintjobs]_vars

\* an admin-suspend has completed: the job is admin-suspended without its
\* resources and its node is in maintenance
C21_Witness ==
    /\ jobs[PlainJob].Suspend
    /\ jobs[PlainJob].AdmSuspd
    /\ jobs[PlainJob].assigned = 0
    /\ \A n \in exec_vnode(PlainJob) : nodes[n].maint
    /\ \E r \in BrIds :
          /\ reqs[r].signame = SIG_ADMIN_SUSPEND
          /\ reqs[r].st = "freed"
          /\ replies[r] = <<PBSE_NONE>>

\* C22: a vnode is in maintenance state exactly when its maintenance-jobs
\* list is not empty.
C22_MaintenanceIffJobs ==
    \A n \in Vnodes : nodes[n].maint <=> nodes[n].maintjobs # {}

\* the bookkeeping was cleared for one of two jobs that hold the same vnode
\* in maintenance
C22_Witness ==
    /\ out # NoOut
    /\ ~out.set_remove_nstate
    /\ \E n \in exec_vnode(out.pjob) :
          /\ nodes[n].maint
          /\ nodes[n].maintjobs # {}
          /\ out.pjob \notin nodes[n].maintjobs

\* C23: however authoritative resume requests for one suspended job and the
\* replies of its execution host interleave, the job's resources are
\* assigned at most once and never released below zero.
C23_AssignedOnce ==
    \A j \in DOMAIN jobs : jobs[j] # AbsentJob => jobs[j].assigned \in {0, 1}

\* both ends of the handshake have marked the direction ready
HandshakeReady ==
    /\ mem.client.rc = "0"
    /\ mem.client.status = AUTH_STATUS_CTX_READY
    /\ chan[mem.fd][mem.dir].status = AUTH_STATUS_CTX_READY

\* both providers finish without a failure
ProvidersComplete ==
    /\ mem.cscript[Len(mem.cscript)].res = "done"
    /\ mem.sscript[Len(mem.sscript)].res = "done"

\* the providers answer each other token for token: every call that asks for
\* more gives a token, and either the server finishes first with a token
\* that the client's last call takes, or the client finishes with a token
\* that the server's last call takes without giving one
LockStep ==
    LET cs == mem.cscript
        ss == mem.sscript
        n == Len(cs)
        m == Len(ss)
    IN  /\ ProvidersComplete
        /\ \A i \in 1..(n - 1) : cs[i].tok
        /\ \A i \in 1..(m - 1) : ss[i].tok
        /\ \/ m = n - 1 /\ ss[m].tok
           \/ m = n /\ cs[n].tok /\ ~ss[m].tok

\* C24 as stated: whenever both providers finish without a failure, the
\* client and the server end with the direction ready.
C24_CompletingProvidersFinish == ProvidersComplete => <>HandshakeReady

\* C24: when the providers answer each other token for token, the client
\* and the server end with the direction ready (the client neither waits
\* for ever nor fails on a packet type).
C24_LockStepFinishes == LockStep => <>HandshakeReady

\* a handshake of two client calls that ended ready on both sides
C24_Witness ==
    /\ LockStep
    /\ HandshakeReady
    /\ mem.client.calls = MaxRounds

\* the step is one call of engage_server_auth on a packet of the client
ServerStepTaken == Len(mem'.c2s) < Len(mem.c2s)

\* the server's provider fails on the token the step reads
ServerProviderFails ==
    /\ ServerStepTaken
    /\ chan[mem.fd][mem.dir].status = AUTH_STATUS_CTX_ESTABLISHING
    /\ mem.sscript[mem.scalls + 1].res = "fail"

\* the client's transport_recv_pkt returns an AUTH_ERR_DATA packet
ClientGetsError ==
    /\ mem.client.pc = "recv"
    /\ mem'.client # mem.client
    /\ Head(mem.s2c) = AUTH_ERR_DATA

\* C25: a server whose provider fails sends AUTH_ERR_DATA and returns -1 with
\* the channel as it was but for the context, the direction not ready; a
\* client that receives AUTH_ERR_DATA returns -1 with PBSE_BADCRED and its
\* direction not ready.
C25_ProviderFailureReported ==
    [][/\ ServerProviderFails =>
             /\ mem'.s2c = mem.s2c \o <<AUTH_ERR_DATA>>
             /\ out'.rc = "-1"
             /\ \A d \in Dirs : chan'[mem.fd][d].status = chan[mem.fd][d].status
             /\ chan'[mem.fd][mem.dir].status # AUTH_STATUS_CTX_READY
       /\ ClientGetsError =>
             /\ mem'.client.pc = "returned"
             /\ mem'.client.rc = "-1"
             /\ mem'.client.errno = "PBSE_BADCRED"
             /\ mem'.client.status # AUTH_STATUS_CTX_READY]_vars

\* the server gave up after its provider failed and the client, whose own
\* provider was done, returned the bad-credential error
C25_Witness ==
    /\ out.rc = "-1"
    /\ mem.client.done
    /\ mem.client.errno = "PBSE_BADCRED"
    /\ mem.client.status # AUTH_STATUS_CTX_READY
    /\ chan[mem.fd][mem.dir].status = AUTH_STATUS_CTX_ESTABLISHING

\* C26: a server step that completes the handshake of the encryption
\* direction makes the authentication direction ready with the same context
\* when both have the same definition; a server step for the encryption
\* direction leaves the status and context of an authentication direction
\* with no definition or another one as they were.
C26_PromotionOnlyForSameDef ==
    [][(ServerStepTaken /\ mem.dir = FOR_ENCRYPT) =>
          LET auth == chan[mem.fd][FOR_AUTH]
              encr == chan[mem.fd][FOR_ENCRYPT]
          IN  /\ (/\ encr.status = AUTH_STATUS_CTX_ESTABLISHING
                  /\ chan'[mem.fd][FOR_ENCRYPT].status = AUTH_STATUS_CTX_READY
                  /\ auth.def = encr.def) =>
                     /\ chan'[mem.fd][FOR_AUTH].status = AUTH_STATUS_CTX_READY
                     /\ chan'[mem.fd][FOR_AUTH].ctx =
                            chan'[mem.fd][FOR_ENCRYPT].ctx
              /\ (auth.def = NoDef \/ auth.def # encr.def) =>
                     /\ chan'[mem.fd][FOR_AUTH].status = auth.status
                     /\ chan'[mem.fd][FOR_AUTH].ctx = auth.ctx]_vars

\* the encryption handshake has completed on a channel whose two directions
\* share a definition, and the authentication direction has its context
C26_Witness ==
    /\ mem.dir = FOR_ENCRYPT
    /\ out.rc = "0"
    /\ chan[mem.fd][FOR_ENCRYPT].status = AUTH_STATUS_CTX_READY
    /\ chan[mem.fd][FOR_AUTH].def = chan[mem.fd][FOR_ENCRYPT].def
    /\ chan[mem.fd][FOR_AUTH].status = AUTH_STATUS_CTX_READY
    /\ chan[mem.fd][FOR_AUTH].ctx = FOR_ENCRYPT

\* the step is an Authenticate request that req_authenticate acknowledges
AuthenticateAccepted ==
    /\ last'.seq = last.seq + 1
    /\ last'.type = PBS_BATCH_Authenticate
    /\ last'.handler = "req_authenticate"

\* C27: an accepted Authenticate request leaves the authentication direction
\* of the target channel establishing, with the definition of the method,
\* for any method but the reserved-port one and ready for that one; it
\* leaves the encryption direction establishing when an encryption method
\* was named and as it was when none was; the request is acknowledged and
\* its connection stays open.
C27_AuthenticateArmsChannel ==
    [][AuthenticateAccepted =>
          LET cp == last'.cp
          IN  /\ last'.reply = PBSE_NONE
              /\ conn'[last'.conn].open
              /\ IF last'.method = AUTH_RESVPORT_NAME
                 THEN chan'[cp][FOR_AUTH].status = AUTH_STATUS_CTX_READY
                 ELSE /\ chan'[cp][FOR_AUTH].status =
                            AUTH_STATUS_CTX_ESTABLISHING
                      /\ chan'[cp][FOR_AUTH].def = get_auth(last'.method)
              /\ IF last'.encrypt # ""
                 THEN /\ chan'[cp][FOR_ENCRYPT].status =
                            AUTH_STATUS_CTX_ESTABLISHING
                      /\ chan'[cp][FOR_ENCRYPT].def = get_auth(last'.encrypt)
                 ELSE chan'[cp][FOR_ENCRYPT] = chan[cp][FOR_ENCRYPT]]_vars

\* a reserved-port Authenticate request that names an encryption method has
\* been acknowledged
C27_Witness ==
    /\ last.handler = "req_authenticate"
    /\ last.reply = PBSE_NONE
    /\ last.method = AUTH_RESVPORT_NAME
    /\ last.encrypt # ""
    /\ chan[last.cp][FOR_AUTH].status = AUTH_STATUS_CTX_READY
    /\ chan[last.cp][FOR_ENCRYPT].status = AUTH_STATUS_CTX_ESTABLISHING

\* C28: the decoder returns PBSE_NONE, -1 (end of file), PBSE_PROTOCOL or
\* PBSE_UNKREQ and nothing else; a failure of the header decoder, of a body
\* decoder or of the extension decoder comes back as PBSE_PROTOCOL.
C28_DecoderCodes ==
    out # NoOut =>
        /\ out.rc \in {PBSE_NONE, "EOF", "PBSE_PROTOCOL", "PBSE_UNKREQ"}
        /\ mem.buf.hdr # PBSE_NONE => out.rc = "PBSE_PROTOCOL"
        /\ (out.body /\ mem.buf.body # PBSE_NONE) => out.rc = "PBSE_PROTOCOL"
        /\ (out.extend /\ mem.buf.extend # PBSE_NONE) =>
               out.rc = "PBSE_PROTOCOL"

\* a body decoder failed with PBSE_SYSTEM and the decoder returned
\* PBSE_PROTOCOL
C28_Witness ==
    /\ out # NoOut
    /\ out.body
    /\ mem.buf.body = PBSE_SYSTEM
    /\ out.rc = "PBSE_PROTOCOL"

\* C29: whatever the request holds, when get_connecthost fails on an open
\* connection the request is answered PBSE_BADHOST, it is not decoded and
\* reaches no handler, and the connection and its channel stay as they were.
C29_BadHostKeepsConnection ==
    \A c \in Conns, r \in Requests :
        conn[c].open =>
            LET A == process_request(AuthState, c, [r EXCEPT !.hostok = FALSE])
            IN  /\ A.last.seq = last.seq + 1
                /\ A.last.reply = "PBSE_BADHOST"
                /\ A.last.type = ""
                /\ A.last.handler = ""
                /\ A.conn = conn
                /\ A.chan = chan

\* a request from a peer without a name was answered on a connection that
\* is still open
C29_Witness ==
    /\ last.seq > 0
    /\ last.reply = "PBSE_BADHOST"
    /\ last.type = ""
    /\ conn[last.conn].open

\* the handler of a Status request has been called
StatusHandled ==
    /\ out # NoOut
    /\ mem.rq_type \in StatusTypes
    /\ \E i \in DOMAIN out.calls : out.calls[i] = handler_of(mem.rq_type)

\* C30 as stated: the handler of every Status request runs with the socket
\* non-blocking, between set_to_non_blocking and clear_non_blocking.
C30_EveryStatusNonBlocking ==
    StatusHandled =>
        /\ out.during
        /\ out.calls = <<"set_to_non_blocking", handler_of(mem.rq_type),
                         "clear_non_blocking">>

\* C30: the handlers of StatusJob, StatusQue, StatusNode, StatusResv and
\* StatusHook run with the socket non-blocking, between set_to_non_blocking
\* and clear_non_blocking, and the connection, if still there, is blocking
\* again at the return; the handlers of StatusSvr, StatusSched and StatusRsc
\* are called with the socket left as it is.
C30_LargeStatusNonBlocking ==
    StatusHandled =>
        IF mem.rq_type \in {"StatusSvr", "StatusSched", "StatusRsc"}
        THEN /\ ~out.during
             /\ out.calls = <<handler_of(mem.rq_type)>>
        ELSE /\ out.during
             /\ out.calls = <<"set_to_non_blocking", handler_of(mem.rq_type),
                              "clear_non_blocking">>
             /\ ~out.closed => ~out.after

\* a hook status request of local root was handled with the socket
\* non-blocking and the connection is blocking again
C30_Witness ==
    /\ StatusHandled
    /\ mem.rq_type = "StatusHook"
    /\ out.during
    /\ ~out.closed
    /\ ~out.after

\* C31: close_client on socket s leaves the list of outstanding requests
\* with the same records in the same order; a connection field of a record
\* is -1 afterwards when it held s and is unchanged otherwise, so a record
\* that did not reference s is untouched.
C31_CloseInactivatesRequests ==
    [][out' # out =>
          LET s == out'.sfds
              old == mem.svr_requests
              new == mem'.svr_requests
          IN  /\ Len(new) = Len(old)
              /\ \A i \in DOMAIN old :
                    /\ new[i].rq_conn =
                          IF old[i].rq_conn = s THEN NoSock ELSE old[i].rq_conn
                    /\ new[i].rq_orgconn =
                          IF old[i].rq_orgconn = s
                          THEN NoSock ELSE old[i].rq_orgconn]_vars

\* after the close the list holds a request cut off from the closed socket
\* next to a request that still has its own socket
C31_Witness ==
    /\ out # NoOut
    /\ Len(mem.svr_requests) = MaxOutstanding
    /\ \E i, j \in DOMAIN mem.svr_requests :
          /\ mem.svr_requests[i].rq_conn = NoSock
          /\ mem.svr_requests[i].rq_orgconn = NoSock
          /\ mem.svr_requests[j].rq_conn \in Socks \ {out.sfds}

\* C32: a header with another protocol type, or with a protocol version
\* that is not PBS_BATCH_PROT_VER, makes the decoder return PBSE_PROTOCOL
\* without calling a body decoder or the extension decoder.
C32_VersionMustMatch ==
    (/\ out # NoOut
     /\ (mem.buf.proto_type # "ProtType_Batch" \/ mem.buf.proto_ver # 0)) =>
        out = Decoded("PBSE_PROTOCOL", FALSE, FALSE)

\* C33: whatever suspend, admin-suspend, resume and admin-resume requests and
\* replies of the execution host have been handled, a job flagged
\* admin-suspended is flagged suspended.
C33_AdmSuspdImpliesSuspend ==
    \A j \in DOMAIN jobs : jobs[j].AdmSuspd => jobs[j].Suspend

\* C34: when the attribute list of any status record that is read fails to
\* decode, the reply decoder returns a non-zero code.
C34_AttrFailureReported ==
    (/\ out # NoOut
     /\ \E i \in 1..out.appended : mem.records[i].attrs # DIS_SUCCESS) =>
        out.rc # DIS_SUCCESS

\* the call of this step tried to acquire new credentials and failed
RefreshFailed == out'.attempted /\ out'.acquire = "fail"

\* C35: in the server role a failed refresh keeps the credentials held before
\* and runs the accept round of that call with them, and no call made less
\* than 120 seconds after a failed refresh tries to acquire credentials.
C35_FailedRefreshKeepsCreds ==
    [][/\ RefreshFailed =>
            /\ mem'.server_creds = mem.server_creds
            /\ out'.accept = {mem.server_creds}
       /\ \A t \in mem.failed : mem'.now < t + 120 => ~out'.attempted]_vars

\* a refresh failed with credentials held, and the next call came less than
\* 120 seconds later
C35_Witness ==
    /\ out # NoOut
    /\ mem.server_creds # GSS_C_NO_CREDENTIAL
    /\ \E t \in mem.failed : t < mem.now /\ mem.now < t + 120
    /\ ~out.attempted

\* C36: after any sequence of decode_str, set_str and free_str calls the
\* attribute is flagged set only if it holds a non-empty string.
C36_SetOnlyNonEmpty ==
    mem.attr.vflag_set =>
        ~mem.attr.at_str.null /\ mem.attr.at_str.bytes # <<>>

HostEntries == {i \in DOMAIN mem.vstrs : mem.vstrs[i].at /\ host_matches(mem.vstrs[i])}
WildcardEntries == {i \in DOMAIN mem.vstrs : ~mem.vstrs[i].at}
First(S) == CHOOSE i \in S : \A j \in S : i <= j

\* C38: with a shell list set, the shell is the first entry whose host part
\* matches this host, else the first entry without a host part, else the
\* login shell.
C38_FirstMatchFirstWildcard ==
    (out # NoOut /\ mem.is_set) =>
        out.shell = IF HostEntries # {} THEN First(HostEntries)
                    ELSE IF WildcardEntries # {} THEN First(WildcardEntries)
                    ELSE LoginShell

\* the release files that are readable, in table order from the first entry
ReadableFiles == {i \in DOMAIN mem.files : mem.files[i].readable}

\* C39: the OS version comes from the first readable file of
\* /etc/redhat-release, /etc/SuSE-release, /etc/os-release, parsed with that
\* file's prefix, search token and separator.
C39_FirstReadableRelease ==
    (out # NoOut /\ ReadableFiles # {}) =>
        LET i == First(ReadableFiles)
        IN  out.osver = parse_sysfile_info(mem.files[i], release_info[i].pfx,
                            release_info[i].srch, release_info[i].sep)

\* the job and task that a reaped process id belongs to before the scan
ReapedAt(i) == find_job(mem.jobs, out'.reaped[i].pid, 1)

\* C40: a reaped session id of a task of a job flagged for termination whose
\* session has live processes flags the task orphaned and leaves its status;
\* any other reaped session id of a task marks it exited and saved and sets
\* exiting_tasks; a job none of whose processes is reaped keeps its state,
\* and exiting_tasks changes only when a task is reaped.
C40_ReapedTask ==
    [][/\ \A i \in DOMAIN out'.reaped :
              LET at == ReapedAt(i)
                  r == out'.reaped[i]
              IN  at.k # 0 =>
                     LET old == mem.jobs[at.j].ji_tasks[at.k]
                         new == mem'.jobs[at.j].ji_tasks[at.k]
                     IN  IF mem.jobs[at.j].termjob /\ r.live > 0
                         THEN /\ new.orphan
                              /\ new.ti_status = old.ti_status
                              /\ new.ti_status # TI_STATE_EXITED
                         ELSE /\ new.ti_status = TI_STATE_EXITED
                              /\ new.saved
                              /\ mem'.exiting_tasks = 1
       /\ \A j \in DOMAIN mem.jobs :
              (\A i \in DOMAIN out'.reaped : ReapedAt(i).j # j)
                  => mem'.jobs[j] = mem.jobs[j]
       /\ (\A i \in DOMAIN out'.reaped : ReapedAt(i).k = 0)
              => mem'.exiting_tasks = mem.exiting_tasks]_vars

\* one scan reaped a process of no job and a task that became orphaned
C40_Witness ==
    /\ out # NoOut
    /\ \E i \in DOMAIN out.reaped : out.reaped[i].pid = "p5"
    /\ \E j \in DOMAIN mem.jobs : \E k \in DOMAIN mem.jobs[j].ji_tasks :
           /\ mem.jobs[j].ji_tasks[k].orphan
           /\ mem.jobs[j].ji_tasks[k].ti_status = TI_STATE_RUNNING

\* C11: a suspend or resume request of a requester without operator or
\* manager permission is answered PBSE_PERM whatever the shape of the job id:
\* no duplicate is made, relay_to_mom is not called, and the jobs, the nodes
\* and the scheduler flag stay as they were.
C11_PermissionFirst ==
    [][\A r \in BrIds :
          Unprivileged(r) =>
             /\ replies'[r] = <<"PBSE_PERM">>
             /\ reqs'[r].st = "freed"
             /\ reqs'[r].ncalls = 0
             /\ reqs'[r].refct = 0
             /\ \A d \in BrIds : reqs'[d].st # "none" => reqs'[d].parentbr # r
             /\ jobs' = jobs
             /\ nodes' = nodes
             /\ relays' = relays
             /\ sched' = sched]_vars

\* a suspend of a range of running subjobs was refused for lack of permission
C11_Witness ==
    \E r \in Received({"range"}) :
        /\ reqs[r].signame = SIG_SUSPEND
        /\ ~reqs[r].oper
        /\ replies[r] = <<"PBSE_PERM">>
        /\ \A j \in SubJobs : jobs[j] = RunningJob

-----------------------------------------------------------------------------
(* Properties of the intake and of the handshake *)

\* the decoder has run on a buffer with a valid header whose request type
\* is no case of the switch in this build
UnknownRequestDecoded ==
    /\ out # NoOut
    /\ mem.buf.hdr = PBSE_NONE
    /\ mem.buf.proto_type = "ProtType_Batch"
    /\ mem.buf.proto_ver = 0
    /\ mem.buf.rq_type \notin KnownTypes(mem.build)

\* C12: for a valid header with a request type it does not know, the decoder
\* returns PBSE_UNKREQ (not PBSE_PROTOCOL) and calls neither a body decoder
\* nor the extension decoder.
C12_UnknownRequest ==
    UnknownRequestDecoded =>
        out = Decoded("PBSE_UNKREQ", FALSE, FALSE)

\* the server has decoded a header with a type that matches no request, in a
\* buffer whose body and extension would not have decoded
C12_Witness ==
    /\ UnknownRequestDecoded
    /\ mem.build = "server"
    /\ mem.buf.rq_type = UnknownType
    /\ mem.buf.body # PBSE_NONE
    /\ mem.buf.extend # PBSE_NONE
    /\ out.rc = "PBSE_UNKREQ"

\* process_request has read a request on connection c in this step
Reads(c) == last'.seq = last.seq + 1 /\ last'.conn = c

\* C3: a decoded request other than Connect and Authenticate, on a
\* connection that is not the link to the scheduler, whose authentication
\* direction is not ready and which is not flagged authenticated, is
\* answered PBSE_BADCRED, the connection is closed, and the request reaches
\* no handler.
C3_NoCredentialNoService ==
    [][\A c \in Conns :
          (/\ Reads(c)
           /\ last'.type \notin {"", PBS_BATCH_Connect, PBS_BATCH_Authenticate}
           /\ PBS_NET_CONN_TO_SCHED \notin conn[c].authen
           /\ chan[c][FOR_AUTH].status # AUTH_STATUS_CTX_READY
           /\ PBS_NET_CONN_AUTHENTICATED \notin conn[c].authen)
          => /\ last'.reply = "PBSE_BADCRED"
             /\ ~conn'[c].open
             /\ last'.handler = ""
             /\ PBS_NET_CONN_AUTHENTICATED \notin conn'[c].authen]_vars

\* a Signal-Job request on a connection without credential was turned away
C3_Witness ==
    /\ last.type = PBS_BATCH_SignalJob
    /\ last.reply = "PBSE_BADCRED"
    /\ last.handler = ""
    /\ ~conn[last.conn].open
    /\ conn[last.conn].authen = {}

\* C4: on the server, a direction that is ready by a handshake (not by the
\* reserved-port method) has a context on which the provider has reported
\* completion.
C4_ReadyOnlyAfterCompletion ==
    \A c \in Conns, d \in Dirs :
        (/\ chan[c][d].status = AUTH_STATUS_CTX_READY
         /\ ~(d = FOR_AUTH /\ conn[c].auth_method = AUTH_RESVPORT_NAME))
        => chan[c][d].ctx \in done[c]

\* C5 as stated: a ready direction stays ready while the connection is open.
C5_ReadyUntilClosed ==
    [][\A c \in Conns, d \in Dirs :
          (chan[c][d].status = AUTH_STATUS_CTX_READY /\ conn'[c].open)
          => chan'[c][d].status = AUTH_STATUS_CTX_READY]_vars

\* an accepted Authenticate request read in this step names a provider for
\* direction d of connection c
Rearms(c, d) ==
    /\ last'.seq = last.seq + 1
    /\ last'.type = PBS_BATCH_Authenticate
    /\ last'.handler = "req_authenticate"
    /\ last'.cp = c
    /\ IF d = FOR_AUTH THEN last'.method # AUTH_RESVPORT_NAME
       ELSE last'.encrypt # ""

\* C5: a ready direction stays ready while the connection is open, through
\* every handshake step and every request, except that an accepted
\* Authenticate request naming a provider for the direction sets it back to
\* establishing.
C5_ReadyUntilClosedOrRearmed ==
    [][\A c \in Conns, d \in Dirs :
          (chan[c][d].status = AUTH_STATUS_CTX_READY /\ conn'[c].open)
          => chan'[c][d].status =
                IF Rearms(c, d) THEN AUTH_STATUS_CTX_ESTABLISHING
                ELSE AUTH_STATUS_CTX_READY]_vars

\* a request was served on a connection made ready by a handshake, and the
\* direction is still ready
C5_Witness ==
    \E c \in Conns :
        /\ last.conn = c
        /\ last.type = PBS_BATCH_SignalJob
        /\ last.handler = "dispatch_request"
        /\ conn[c].open
        /\ chan[c][FOR_AUTH].status = AUTH_STATUS_CTX_READY
        /\ chan[c][FOR_AUTH].ctx \in done[c]

\* get_auth is called with the method of the call before, which returned an
\* entry
SecondLookup ==
    /\ mem'.ncall = mem.ncall + 1
    /\ out.rc = "returned"
    /\ out.auth # NoEntry
    /\ out'.method = out.method

\* C13: when a call of get_auth has returned an entry, the next call with
\* the same method returns the same entry and _load_lib is not called.
C13_SecondLookupCached ==
    [][SecondLookup =>
          /\ out'.auth = out.auth
          /\ mem'.nload = mem.nload
          /\ mem'.loaded_auths = mem.loaded_auths]_vars

\* a method was loaded once and then looked up again, with another method
\* loaded in between
C13_Witness ==
    /\ out.rc = "returned"
    /\ out.method = "gss"
    /\ out.auth = [addr |-> 1, name |-> "gss"]
    /\ mem.ncall = 3
    /\ mem.nload = 2
    /\ Len(mem.loaded_auths) = 2

\* the call before this step was fn and returned PBS_GSS_OK
Returned(fn) == out # NoOut /\ out.fn = fn /\ out.rc = PBS_GSS_OK

\* this step is an unwrap with empty input (data_in NULL, len_in 0) on a
\* ready, confidential context, in which malloc does not fail
EmptyUnwrap ==
    /\ mem'.ncall = mem.ncall + 1
    /\ mem.ready /\ mem.confidential
    /\ out'.fn = "pbs_gss_unwrap"
    /\ out'.data_in = NullBuf
    /\ out'.env # "nomem"

\* C14: on a ready, confidential context an empty-input unwrap right after a
\* successful wrap of P returns P and leaves the cleartext cache empty, and
\* an empty-input unwrap right after that one fails.
C14_WrapThenEmptyUnwrap ==
    [][/\ (EmptyUnwrap /\ Returned("pbs_gss_wrap"))
          => /\ out'.rc = PBS_GSS_OK
             /\ out'.data = out.data_in
             /\ mem'.cleartext = NullBuf
       /\ (EmptyUnwrap /\ Returned("pbs_gss_unwrap") /\ out.data_in = NullBuf)
          => /\ out'.rc = PBS_GSS_ERR_INTERNAL
             /\ out'.data = NullBuf
             /\ mem'.cleartext = NullBuf]_vars

\* after a wrap of a two-byte plaintext and an empty-input unwrap that
\* returned it, a second empty-input unwrap has failed
C14_Witness ==
    /\ mem.ncall = 3
    /\ mem.ready /\ mem.confidential
    /\ out.fn = "pbs_gss_unwrap"
    /\ out.data_in = NullBuf
    /\ out.env = "ok"
    /\ out.rc = PBS_GSS_ERR_INTERNAL
    /\ mem.cleartext = NullBuf

\* this step is set_str(A, B, DECR) where the attribute holds A and B is a
\* non-empty suffix of A
DecrSuffix ==
    /\ mem'.ncall = mem.ncall + 1
    /\ out'.fn = "set_str"
    /\ out'.op = "DECR"
    /\ ~mem.attr.at_str.null
    /\ out'.new # <<>>
    /\ Len(out'.new) <= Len(mem.attr.at_str.bytes)
    /\ SubSeq(mem.attr.at_str.bytes,
              Len(mem.attr.at_str.bytes) - Len(out'.new) + 1,
              Len(mem.attr.at_str.bytes)) = out'.new

\* C15: set_str(A, B, DECR) with B a suffix of A removes that one occurrence
\* of B, the first match of the right-to-left scan, and leaves every other
\* character of A in place.
C15_DecrRemovesOne ==
    [][DecrSuffix =>
         /\ ~mem'.attr.at_str.null
         /\ mem'.attr.at_str.bytes =
                SubSeq(mem.attr.at_str.bytes, 1,
                       Len(mem.attr.at_str.bytes) - Len(out'.new))]_vars

\* the value given to the decode_str call before this step was non-empty
DecodedValue ==
    /\ out # NoOut
    /\ out.fn = "decode_str"
    /\ out.rc = PBSE_NONE
    /\ ~out.val.null /\ out.val.bytes # <<>>

\* the value given to the decode_str call before this step was NULL or empty
DecodedNothing ==
    /\ out # NoOut
    /\ out.fn = "decode_str"
    /\ out.rc = PBSE_NONE
    /\ out.val.null \/ out.val.bytes = <<>>

\* this step is an encode_str call in which no allocation fails
Encoded ==
    /\ mem'.ncall = mem.ncall + 1
    /\ out'.fn = "encode_str"
    /\ out'.env = "ok"

\* C16: encode_str after decode_str of a non-empty value appends exactly one
\* record, holding that value; after decode_str of an empty or absent value
\* the attribute is unset and encode_str appends nothing and returns 0.
C16_DecodeEncode ==
    [][/\ (DecodedValue /\ Encoded)
          => /\ out'.rc = "1"
             /\ Len(mem'.phead) = Len(mem.phead) + 1
             /\ SubSeq(mem'.phead, 1, Len(mem.phead)) = mem.phead
             /\ mem'.phead[Len(mem'.phead)].al_value = out.val.bytes
       /\ DecodedNothing => ~mem.attr.vflag_set
       /\ (DecodedNothing /\ out'.fn = "encode_str")
          => /\ out'.rc = "0"
             /\ mem'.phead = mem.phead]_vars

\* a two-character value was decoded and then encoded into one record
C16_Witness ==
    /\ mem.ncall = 2
    /\ out.fn = "encode_str"
    /\ out.after = "decode_str"
    /\ out.rc = "1"
    /\ Len(mem.phead) = 1
    /\ mem.phead[1].al_value = <<1, 2>>
    /\ mem.attr.at_str = Buf(<<1, 2>>)

\* the pieces of a resources-released string between the i-th "(" and its ")"
RECURSIVE NthGroup(_, _)
NthGroup(pieces, i) ==
    LET open == CHOOSE n \in 1..Len(pieces) :
                    /\ pieces[n] = Open
                    /\ \A m \in 1..(n - 1) : pieces[m] # Open
        close == CHOOSE n \in open..Len(pieces) :
                    /\ pieces[n] = Close
                    /\ \A m \in open..(n - 1) : pieces[m] # Close
    IN  IF i = 1 THEN SubSeq(pieces, open + 1, close - 1)
        ELSE NthGroup(SubSeq(pieces, close + 1, Len(pieces)), i - 1)

\* the resources of a chunk that are in the restricted list, as clauses
Matching(chunk, as_string) ==
    LET listed(kv) == \E k \in 1..Len(as_string) : as_string[k] = kv.kv_keyw
        kept == SelectSeq(chunk.pkvp, listed)
    IN  [j \in 1..Len(kept) |-> Clause(kept[j].kv_keyw, kept[j].kv_val)]

\* create_resreleased has succeeded with the restricted list configured
Released == out # NoOut /\ out.rc = 0 /\ mem.restrict.vflag_set

\* C17: with the restricted-release list configured, a chunk none of whose
\* resources is in the list gets its node name followed by :ncpus=0 only, and
\* a chunk with matching resources gets its node name followed by exactly its
\* matching clauses.
C17_DefaultNcpus ==
    Released =>
        \A i \in 1..Len(mem.exec_vnode) :
            LET chunk == mem.exec_vnode[i]
                matching == Matching(chunk, mem.restrict.as_string)
            IN  NthGroup(out.resc_released, i) =
                    <<NodeName(chunk.noden)>> \o
                    (IF matching = <<>> THEN <<Clause("ncpus", "0")>>
                     ELSE matching)

\* a two-chunk exec_vnode whose first chunk has a listed resource and whose
\* second chunk has none has been converted
C17_Witness ==
    /\ Released
    /\ Len(mem.exec_vnode) = 2
    /\ Matching(mem.exec_vnode[1], mem.restrict.as_string) # <<>>
    /\ Matching(mem.exec_vnode[2], mem.restrict.as_string) = <<>>
    /\ NthGroup(out.resc_released, 2) =
           <<NodeName(mem.exec_vnode[2].noden), Clause("ncpus", "0")>>

=============================================================================
